---- MODULE Spec2Model ----
(***************************************************************************)
(* A model of History (Telegram/SourceFiles/history/history.cpp): the      *)
(* per-conversation window of message blocks, its load-edge flags, read    *)
(* cursors, unread counter and chat-list projection.                       *)
(*                                                                         *)
(* Every handler of History is one atomic action: the window is owned by   *)
(* one thread.  A handler is written as a function from the window state   *)
(* (a record of the member fields) to the window state, composed in the    *)
(* order of the statements of the C++ code.  A failed Expects/Assert sets  *)
(* the field "failed"; the process is then dead and takes no more steps.   *)
(***************************************************************************)
EXTENDS Integers, Sequences, FiniteSets, TLC

\* ---------------------------------------------------------------- bounds
\* Server message ids the remote store hands out are 1..MaxMsgId.
MaxMsgId == 2
\* Longest page a range query returns.
MaxPage == 2
\* How many item objects may ever be created for one message id.
MaxGen == 2
\* How many local (client-side id) service items may be created.
MaxLocal == 1
\* Largest unread count the remote store reports.
MaxUnread == 2
\* How many item objects may ever be destroyed.
MaxDestroy == 1
\* Longest notification queue.
MaxNotifies == 2
\* The number of messages the remote store hands out one after the other when
\* the conversation is followed live (ids 1..ScenarioLen, in order).
ScenarioLen == 6
\* Draft timestamps are 0..MaxDraftDate (0: the draft carries no date).
MaxDraftDate == 2
\* An item's main view is recreated until it is its MaxViews-th Element.
MaxViews == 2
\* Draft objects are told apart by identities 1..MaxDraftObjects.
MaxDraftObjects == 2
\* unixtime() reads 0..MaxUnixtime.
MaxUnixtime == 2
\* The largest total of unread mentions the window is let to reach.
MaxMentions == 3
\* How many other users can type or act in the conversation.
MaxUsers == 3
\* The last reading of the clock, in milliseconds.
MaxNow == 6001

\* ------------------------------------------------------ program constants
kNewBlockEachMessage == 50
kSkipCloudDraftsFor == 3
kStatusShowClientsideTyping == 6000
kStatusShowClientsideRecordVideo == 6000
kStatusShowClientsidePlayGame == 10000
\* The clock is read every ClockStep milliseconds.
ClockStep == 6000
ServerMaxMsgId == 1073741823
StartClientMsgId == -2147483647

VARIABLES
    peer,              \* the conversation: kind, migrateFrom, invite data
    session,           \* the session the window belongs to: supportMode
    localDraft,        \* History::_localDraft, unique_ptr<Data::Draft>
    cloudDraft,        \* History::_cloudDraft, unique_ptr<Data::Draft>
    localDraftObject,  \* which Draft object _localDraft points to, 0 for none
    lastSentDraftText, \* History::_lastSentDraftText, << >> for nullopt
    lastSentDraftTime, \* History::_lastSentDraftTime
    unixtime,          \* the reading of unixtime(), seconds
    migrateTo,         \* peer->migrateTo(): the legacy group was converted
    blocks,            \* History::blocks, a sequence of blocks of item views
    items,             \* the process-wide item table (App::histItemById)
    created,           \* per message id, how many item objects were ever made
    nextLocal,         \* how many client-side ids clientMsgId() has handed out
    loadedAtTop,       \* History::_loadedAtTop
    loadedAtBottom,    \* History::_loadedAtBottom
    lastMessage,       \* History::_lastMessage, optional<HistoryItem*>
    chatListMessage,   \* History::_chatListMessage, optional<HistoryItem*>
    chatListTimeId,    \* Dialogs::Entry time id, set by setChatListMessage
    inboxReadBefore,   \* History::_inboxReadBefore, optional<MsgId>
    outboxReadBefore,  \* History::_outboxReadBefore, optional<MsgId>
    unreadCount,       \* History::_unreadCount, optional<int>
    unreadMark,        \* History::_unreadMark
    unreadMentions,    \* History::_unreadMentions, a set of message ids
    unreadMentionsCount,\* History::_unreadMentionsCount, optional<int>
    firstUnreadView,   \* History::_firstUnreadView
    unreadBarView,     \* History::_unreadBarView
    scrollTopItem,     \* History::scrollTopItem
    buildingFrontBlock,\* History::_buildingFrontBlock, unique_ptr<BuildingBlock>
    notifies,          \* History::notifies, the notification queue
    typing,            \* History::_typing: per user the expiry, 0 for no entry
    sendActions,       \* History::_sendActions: per user type and expiry
    sendActionString,  \* History::_sendActionString, by form and arguments
    now,               \* crl::now(), the clock
    joinedMessage,     \* History::_joinedMessage
    joinedMessageFound,\* mgInfo->joinedMessageFound
    requests,          \* requests to the remote-sync collaborator in flight
    fromChatList,      \* the legacy sibling window's chatListMessage
    lastKeyboardInited,\* History::lastKeyboardInited
    lastKeyboardUsed,  \* History::lastKeyboardUsed
    lastKeyboardId,    \* History::lastKeyboardId, 0 for no tracked keyboard
    lastKeyboardFrom,  \* History::lastKeyboardFrom, 0 for none
    participants,      \* peer->asChat()->participants, the known member list
    mgBots,            \* mgInfo->bots
    botStatus,         \* mgInfo->botStatus, 0 while unknown
    markupSenders,     \* markupSenders of the chat or megagroup
    inChatList,        \* inChatList(Dialogs::Mode::All)
    unreadFull,        \* the session's sum of the unreadIncrement deltas
    unreadEntriesFull, \* the session's sum of the unreadEntriesChanged deltas
    indexInHistory,    \* per block, HistoryBlock::_indexInHistory (from 1)
    indexInBlock,      \* per block and view, Element::_indexInBlock (from 1)
    failed,            \* "" or the Expects/Assert that aborted the process
    lastOp             \* the handler that produced this state, with its inputs

vars == << peer, session, localDraft, cloudDraft, localDraftObject,
           lastSentDraftText, lastSentDraftTime, unixtime, migrateTo, blocks, items, created, nextLocal, loadedAtTop, loadedAtBottom,
           lastMessage, chatListMessage, chatListTimeId, inboxReadBefore,
           outboxReadBefore, unreadCount, unreadMark, unreadMentions,
           unreadMentionsCount, firstUnreadView,
           unreadBarView, scrollTopItem, buildingFrontBlock, notifies,
           typing, sendActions, sendActionString, now,
           joinedMessage, joinedMessageFound, requests, fromChatList,
           lastKeyboardInited, lastKeyboardUsed, lastKeyboardId,
           lastKeyboardFrom, participants, mgBots, botStatus, markupSenders,
           inChatList, unreadFull, unreadEntriesFull,
           indexInHistory, indexInBlock,
           failed, lastOp >>

\* ------------------------------------------------------------ small helpers
Max(a, b) == IF a >= b THEN a ELSE b

RemoveAt(seq, i) == SubSeq(seq, 1, i - 1) \o SubSeq(seq, i + 1, Len(seq))

InsertAt(seq, i, x) == SubSeq(seq, 1, i - 1) \o << x >> \o SubSeq(seq, i, Len(seq))

Reverse(seq) == [k \in 1..Len(seq) |-> seq[Len(seq) + 1 - k]]

RECURSIVE Flatten(_)
Flatten(bs) == IF bs = << >> THEN << >> ELSE Head(bs) \o Flatten(Tail(bs))

\* F applied to the value of v: the statements of a handler run in order, each
\* on the state the one before it left.
With(v, F(_)) == CHOOSE r \in { F(x) : x \in {v} } : TRUE

\* optional<T>: << >> is nullopt, << v >> holds v.
Known(opt) == Len(opt) > 0
ValueOf(opt) == opt[1]

\* A null HistoryItem* / Element*.  An item record names the item object (id,
\* gen) and the Element that is its main view (view).
NoItem == [id |-> 0, gen |-> 0, view |-> 0, out |-> FALSE, kind |-> "none",
           date |-> 0, flagUnread |-> FALSE, markup |-> << >>]

\* The item the legacy sibling window shows in the chat list, when it has one.
SiblingItem == [id |-> 1, gen |-> 1, view |-> 1, out |-> FALSE, kind |-> "sibling", date |-> 1,
                flagUnread |-> FALSE, markup |-> << >>]

IsServerMsgId(id) == id > 0 /\ id < ServerMaxMsgId

isChannel == peer.kind = "megagroup"

isMegagroup == peer.kind = "megagroup"

isGroupMigrate(item) == item.kind = "migrate"
isGroupEssential(item) == item.kind \in {"migrate", "create"}
hasGroupId(item) == item.kind = "grouped"

\* The window state as one record, and the fields a handler may assign;
\* viewCalls collects the neighbour notifications the handler sends to views.
\* The users other than the local one.
Users == 1..MaxUsers

\* No entry in _sendActions.
NoAction == [type |-> "none", until |-> 0]

\* A status text: the phrase and what is filled in.  NoString is QString().
NoString == [form |-> "", count |-> 0, user |-> 0, second |-> 0]

State ==
    [ migrateTo |-> migrateTo, blocks |-> blocks, items |-> items, created |-> created,
      nextLocal |-> nextLocal,
      loadedAtTop |-> loadedAtTop, loadedAtBottom |-> loadedAtBottom,
      lastMessage |-> lastMessage, chatListMessage |-> chatListMessage,
      chatListTimeId |-> chatListTimeId,
      inboxReadBefore |-> inboxReadBefore, outboxReadBefore |-> outboxReadBefore,
      unreadCount |-> unreadCount, unreadMark |-> unreadMark,
      unreadMentions |-> unreadMentions, unreadMentionsCount |-> unreadMentionsCount,
      firstUnreadView |-> firstUnreadView, unreadBarView |-> unreadBarView,
      scrollTopItem |-> scrollTopItem, buildingFrontBlock |-> buildingFrontBlock,
      notifies |-> notifies, typing |-> typing, sendActions |-> sendActions,
      sendActionString |-> sendActionString, joinedMessage |-> joinedMessage,
      joinedMessageFound |-> joinedMessageFound, requests |-> requests,
      fromChatList |-> fromChatList,
      lastKeyboardInited |-> lastKeyboardInited,
      lastKeyboardUsed |-> lastKeyboardUsed, lastKeyboardId |-> lastKeyboardId,
      lastKeyboardFrom |-> lastKeyboardFrom, participants |-> participants,
      mgBots |-> mgBots, botStatus |-> botStatus,
      markupSenders |-> markupSenders, inChatList |-> inChatList,
      unreadFull |-> unreadFull, unreadEntriesFull |-> unreadEntriesFull,
      indexInHistory |-> indexInHistory,
      indexInBlock |-> indexInBlock, viewCalls |-> << >>, failed |-> failed ]

Fail(s, what) == IF s.failed = "" THEN [s EXCEPT !.failed = what] ELSE s

\* --------------------------------------------------------------- accessors
isEmpty(s) == s.blocks = << >>

isBuildingFrontBlock(s) == Known(s.buildingFrontBlock)

lastMessageOf(s) == IF Known(s.lastMessage) THEN ValueOf(s.lastMessage) ELSE NoItem

lastMessageKnown(s) == Known(s.lastMessage)

chatListMessageOf(s) ==
    IF Known(s.chatListMessage) THEN ValueOf(s.chatListMessage) ELSE NoItem

chatListMessageKnown(s) == Known(s.chatListMessage)

unreadCountOf(s) == IF Known(s.unreadCount) THEN ValueOf(s.unreadCount) ELSE 0

lastAvailableMessage(s) ==
    IF isEmpty(s) THEN NoItem
    ELSE LET b == s.blocks[Len(s.blocks)] IN b[Len(b)]

\* item->mainView(): the item has a view in some block of the window.
HasMainView(s, item) ==
    \E b \in 1..Len(s.blocks) : \E i \in 1..Len(s.blocks[b]) : s.blocks[b][i] = item

BlockOf(s, item) ==
    CHOOSE b \in 1..Len(s.blocks) : \E i \in 1..Len(s.blocks[b]) : s.blocks[b][i] = item

IndexOf(s, item) ==
    LET b == BlockOf(s, item)
    IN  CHOOSE i \in 1..Len(s.blocks[b]) : s.blocks[b][i] = item

RECURSIVE FirstServerId(_)
FirstServerId(seq) ==
    IF seq = << >> THEN 0
    ELSE IF IsServerMsgId(Head(seq).id) THEN Head(seq).id
    ELSE FirstServerId(Tail(seq))

minMsgId(s) == FirstServerId(Flatten(s.blocks))

maxMsgId(s) == FirstServerId(Reverse(Flatten(s.blocks)))

msgIdForRead(s) ==
    LET last == lastMessageOf(s)
        result == IF last # NoItem /\ IsServerMsgId(last.id) THEN last.id ELSE 0
    IN  IF s.loadedAtBottom THEN Max(result, maxMsgId(s)) ELSE result

isServerSideUnread(s, item) ==
    IF item.out
    THEN ~Known(s.outboxReadBefore) \/ item.id >= ValueOf(s.outboxReadBefore)
    ELSE ~Known(s.inboxReadBefore) \/ item.id >= ValueOf(s.inboxReadBefore)

\* HistoryItem::unread(): a confirmed item is read iff its id is below the cursor
\* of its direction; a client-side item carries its own flag.
unread(s, item) ==
    IF IsServerMsgId(item.id) THEN isServerSideUnread(s, item) ELSE item.flagUnread

\* ------------------------------------------------ read cursors, unread count
setInboxReadTillOverwrites(s, upTo) == [s EXCEPT !.inboxReadBefore = << upTo + 1 >>]

setInboxReadTill(s, upTo) ==
    IF Known(s.inboxReadBefore)
    THEN [s EXCEPT !.inboxReadBefore = << Max(ValueOf(s.inboxReadBefore), upTo + 1) >>]
    ELSE [s EXCEPT !.inboxReadBefore = << upTo + 1 >>]

setOutboxReadTill(s, upTo) ==
    IF Known(s.outboxReadBefore)
    THEN [s EXCEPT !.outboxReadBefore = << Max(ValueOf(s.outboxReadBefore), upTo + 1) >>]
    ELSE [s EXCEPT !.outboxReadBefore = << upTo + 1 >>]

\* The backward scan of calculateFirstUnreadMessage over the views, newest first:
\* `found` is _firstUnreadView so far.
RECURSIVE ScanFirstUnread(_, _, _)
ScanFirstUnread(seq, before, found) ==
    IF seq = << >> THEN found
    ELSE IF ~IsServerMsgId(Head(seq).id) THEN ScanFirstUnread(Tail(seq), before, found)
    ELSE IF ~Head(seq).out \/ found = NoItem
    THEN IF Head(seq).id >= before
         THEN ScanFirstUnread(Tail(seq), before, Head(seq))
         ELSE found
    ELSE ScanFirstUnread(Tail(seq), before, found)

\* A variant of calculateFirstUnreadMessage that takes the newest loaded view.
calculateFirstUnreadMessageNewest(s) ==
    IF s.firstUnreadView # NoItem \/ ~Known(s.inboxReadBefore) THEN s
    ELSE [s EXCEPT !.firstUnreadView = lastAvailableMessage(s)]

calculateFirstUnreadMessage(s) ==
    IF s.firstUnreadView # NoItem \/ ~Known(s.inboxReadBefore) THEN s
    ELSE [s EXCEPT !.firstUnreadView =
            ScanFirstUnread(Reverse(Flatten(s.blocks)), ValueOf(s.inboxReadBefore), NoItem)]

\* One block of countUnread, scanned from its newest view: the break leaves the
\* block, not the loop over the blocks.
RECURSIVE CountUnreadInBlock(_, _, _)
CountUnreadInBlock(s, seq, upTo) ==
    IF seq = << >> THEN 0
    ELSE IF Head(seq).id > 0 /\ Head(seq).id <= upTo THEN 0
    ELSE (IF ~Head(seq).out /\ unread(s, Head(seq)) /\ Head(seq).id > upTo THEN 1 ELSE 0)
         + CountUnreadInBlock(s, Tail(seq), upTo)

RECURSIVE CountUnreadBlocks(_, _, _)
CountUnreadBlocks(s, bs, upTo) ==
    IF bs = << >> THEN 0
    ELSE CountUnreadInBlock(s, Reverse(Head(bs)), upTo)
         + CountUnreadBlocks(s, Tail(bs), upTo)

countUnread(s, upTo) == CountUnreadBlocks(s, s.blocks, upTo)

\* Data::Session::unreadIncrement and unreadEntriesChanged: the session adds
\* the deltas to its totals.
unreadIncrement(s, delta) == [s EXCEPT !.unreadFull = @ + delta]

unreadEntriesChanged(s, delta) == [s EXCEPT !.unreadEntriesFull = @ + delta]

\* The tail of setUnreadCount: `was` is the window on entry, s the window
\* with the new count stored.
setUnreadCountReports(was, s, newUnreadCount) ==
    IF ~s.inChatList THEN s
    ELSE With(IF was.unreadMark
                 /\ (unreadCountOf(was) > 0) # (newUnreadCount > 0)
              THEN IF unreadCountOf(was) > 0 THEN 1 ELSE -1
              ELSE 0, LAMBDA unreadMarkDelta :
         With(unreadMarkDelta + (IF Known(was.unreadCount)
                                 THEN newUnreadCount - ValueOf(was.unreadCount)
                                 ELSE newUnreadCount), LAMBDA delta :
         With(was.unreadMark \/ unreadCountOf(was) # 0, LAMBDA wasUnread :
         With(newUnreadCount > 0 \/ s.unreadMark, LAMBDA nowUnread :
             unreadEntriesChanged(unreadIncrement(s, delta),
                 IF wasUnread /\ ~nowUnread THEN -1
                 ELSE IF nowUnread /\ ~wasUnread THEN 1
                 ELSE 0)))))

\* A variant of setUnreadCount that stores the count and resolves nothing.
setUnreadCountOnlyStores(s, newUnreadCount) ==
    IF Known(s.unreadCount) /\ ValueOf(s.unreadCount) = newUnreadCount THEN s
    ELSE [s EXCEPT !.unreadCount = << newUnreadCount >>]

setUnreadCount(s, newUnreadCount) ==
    IF Known(s.unreadCount) /\ ValueOf(s.unreadCount) = newUnreadCount THEN s
    ELSE With(
        IF newUnreadCount = 1
        THEN With(IF s.loadedAtBottom
                  THEN [s EXCEPT !.firstUnreadView = lastAvailableMessage(s)]
                  ELSE s,
                  LAMBDA a : With(msgIdForRead(a), LAMBDA last :
                      IF last # 0 THEN setInboxReadTill(a, last - 1) ELSE a))
        ELSE IF newUnreadCount = 0
        THEN With([s EXCEPT !.firstUnreadView = NoItem],
                  LAMBDA a : With(msgIdForRead(a), LAMBDA last :
                      IF last # 0 THEN setInboxReadTill(a, last) ELSE a))
        ELSE IF s.firstUnreadView = NoItem /\ s.unreadBarView = NoItem
                /\ s.loadedAtBottom
        THEN calculateFirstUnreadMessage(s)
        ELSE s,
        LAMBDA s1 :
            setUnreadCountReports(s, [s1 EXCEPT !.unreadCount = << newUnreadCount >>],
                                  newUnreadCount))

changeUnreadCountUnclamped(s, delta) ==
    IF Known(s.unreadCount)
    THEN With(ValueOf(s.unreadCount) + delta, LAMBDA count :
             setUnreadCount(s, count))
    ELSE s

changeUnreadCount(s, delta) ==
    IF Known(s.unreadCount)
    THEN With(Max(ValueOf(s.unreadCount) + delta, 0), LAMBDA count :
             setUnreadCount(s, count))
    ELSE s

clearNotifications(s) == [s EXCEPT !.notifies = << >>]

\* The notification manager's clearFromHistory, for what it does to the window:
\* it drops the window's pending notifications.
clearFromHistory(s) == clearNotifications(s)

\* A variant of inboxRead that always recounts, whatever the unread count.
inboxReadAlwaysCounts(s, upTo) ==
    With(IF Known(s.unreadCount)
         THEN With(countUnread(s, upTo) - unreadCountOf(s), LAMBDA delta :
                  changeUnreadCount(s, delta))
         ELSE setUnreadCount(s, countUnread(s, upTo)),
         LAMBDA s1 :
             With(setInboxReadTill(s1, upTo), LAMBDA s2 :
                 clearFromHistory([s2 EXCEPT !.firstUnreadView = NoItem])))

inboxRead(s, upTo) ==
    With(IF unreadCountOf(s) # 0
         THEN With(countUnread(s, upTo) - unreadCountOf(s), LAMBDA delta :
                  changeUnreadCount(s, delta))
         ELSE s,
         LAMBDA s1 :
             With(setInboxReadTill(s1, upTo), LAMBDA s2 :
                 clearFromHistory([s2 EXCEPT !.firstUnreadView = NoItem])))

inboxReadItem(s, wasRead) ==
    IF IsServerMsgId(wasRead.id) THEN inboxRead(s, wasRead.id) ELSE s

readInbox(s) ==
    With(msgIdForRead(s), LAMBDA upTo :
    With(changeUnreadCount(s, 0 - unreadCountOf(s)), LAMBDA s1 :
        IF upTo # 0 THEN inboxRead(s1, upTo) ELSE s1))

outboxRead(s, upTo) == setOutboxReadTill(s, upTo)

\* A variant of outboxRead(item) that moves the cursor onto the item itself.
outboxReadItemStoresId(s, wasRead) ==
    IF IsServerMsgId(wasRead.id)
    THEN [s EXCEPT !.outboxReadBefore = << wasRead.id >>]
    ELSE s

outboxReadItem(s, wasRead) ==
    IF IsServerMsgId(wasRead.id) THEN outboxRead(s, wasRead.id) ELSE s

unknownMessageDeleted(s, messageId) ==
    IF Known(s.inboxReadBefore) /\ messageId >= ValueOf(s.inboxReadBefore)
    THEN changeUnreadCount(s, -1)
    ELSE s

\* ------------------------------------------------------ chat-list projection
\* Dialogs::Entry::setChatListTimeId, as setChatListMessage uses it.
setChatListTimeId(s, date) == [s EXCEPT !.chatListTimeId = date]

setChatListMessage(s, item) ==
    IF Known(s.chatListMessage) /\ ValueOf(s.chatListMessage) = item THEN s
    ELSE IF item # NoItem
    THEN IF /\ Known(s.chatListMessage)
            /\ ValueOf(s.chatListMessage) # NoItem
            /\ ~IsServerMsgId(ValueOf(s.chatListMessage).id)
            /\ ValueOf(s.chatListMessage).date > item.date
         THEN s
         ELSE setChatListTimeId([s EXCEPT !.chatListMessage = << item >>], item.date)
    ELSE [s EXCEPT !.chatListMessage = << NoItem >>]

\* The newest view of the window that is not `last`, as optional<HistoryItem*>.
RECURSIVE NewestOther(_, _)
NewestOther(rev, last) ==
    IF rev = << >> THEN << >>
    ELSE IF Head(rev) # last THEN << Head(rev) >>
    ELSE NewestOther(Tail(rev), last)

\* A variant of computeChatListMessageFromLast without the migration rule.
computeChatListMessageFromLastPlain(s) == s.lastMessage

\* Returns optional<HistoryItem*>.
computeChatListMessageFromLast(s) ==
    IF ~Known(s.lastMessage) THEN s.lastMessage
    ELSE IF lastMessageOf(s) = NoItem \/ ~isGroupMigrate(lastMessageOf(s))
    THEN s.lastMessage
    ELSE IF peer.kind = "chat"
    THEN IF ~s.loadedAtBottom THEN << >>
         ELSE With(NewestOther(Reverse(Flatten(s.blocks)), lastMessageOf(s)),
                   LAMBDA other :
                       IF Known(other) THEN other
                       ELSE IF s.loadedAtTop THEN s.lastMessage
                       ELSE << >>)
    ELSE IF peer.migrateFrom
    THEN IF Known(s.fromChatList) THEN s.fromChatList ELSE << >>
    ELSE s.lastMessage

setChatListMessageFromLast(s) ==
    With(computeChatListMessageFromLast(s), LAMBDA good :
        IF Known(good) THEN setChatListMessage(s, ValueOf(good))
        ELSE [s EXCEPT !.chatListMessage = << >>])

setFakeChatListMessage(s) ==
    IF peer.kind = "chat" THEN [s EXCEPT !.requests.fake = TRUE]
    ELSE IF peer.migrateFrom THEN [s EXCEPT !.requests.sibling = TRUE]
    ELSE s

requestChatListMessage(s) ==
    IF ~lastMessageKnown(s) THEN [s EXCEPT !.requests.dialogEntry = "callback"]
    ELSE IF chatListMessageKnown(s) THEN s
    ELSE With(setChatListMessageFromLast(s), LAMBDA s1 :
             IF ~chatListMessageKnown(s1) THEN setFakeChatListMessage(s1) ELSE s1)

setLastMessage(s, item) ==
    IF Known(s.lastMessage) /\ ValueOf(s.lastMessage) = item THEN s
    ELSE IF /\ Known(s.lastMessage)
            /\ ValueOf(s.lastMessage) # NoItem
            /\ item # NoItem
            /\ ~IsServerMsgId(ValueOf(s.lastMessage).id)
            /\ ValueOf(s.lastMessage).date > item.date
    THEN s
    ELSE With([s EXCEPT !.lastMessage = << item >>, !.chatListMessage = << >>],
              LAMBDA s1 : IF ~s1.migrateTo THEN requestChatListMessage(s1) ELSE s1)

refreshChatListMessage(s) ==
    With(setChatListMessageFromLast(s), LAMBDA s1 :
        IF chatListMessageKnown(s) /\ ~chatListMessageKnown(s1)
        THEN requestChatListMessage(s1)
        ELSE s1)

checkChatListMessageRemoved(s, item) ==
    IF chatListMessageOf(s) # item THEN s
    ELSE With([s EXCEPT !.chatListMessage = << >>], LAMBDA s1 :
             refreshChatListMessage(s1))

\* ------------------------------------------------------- blocks and views
\* The first confirmed item of a sequence of views, or null.
RECURSIVE FirstServerItem(_)
FirstServerItem(seq) ==
    IF seq = << >> THEN NoItem
    ELSE IF IsServerMsgId(Head(seq).id) THEN Head(seq)
    ELSE FirstServerItem(Tail(seq))

\* The views that follow `view`, front to back.
RECURSIVE ViewsAfter(_, _)
ViewsAfter(seq, view) ==
    IF seq = << >> THEN << >>
    ELSE IF Head(seq) = view THEN Tail(seq)
    ELSE ViewsAfter(Tail(seq), view)

getNextFirstUnreadMessage(s) ==
    IF s.firstUnreadView = NoItem THEN Fail(s, "getNextFirstUnreadMessage")
    ELSE [s EXCEPT !.firstUnreadView =
             FirstServerItem(ViewsAfter(Flatten(s.blocks), s.firstUnreadView))]

\* b, i: the block and the index in it (from 1) of the view being removed.
getNextScrollTopItem(s, b, i) ==
    IF i < Len(s.blocks[b]) THEN [s EXCEPT !.scrollTopItem = s.blocks[b][i + 1]]
    ELSE IF b < Len(s.blocks) THEN [s EXCEPT !.scrollTopItem = s.blocks[b + 1][1]]
    ELSE [s EXCEPT !.scrollTopItem = NoItem]

mainViewRemoved(s, b, i) ==
    With(s.blocks[b][i], LAMBDA view :
    With(IF s.joinedMessage = view THEN [s EXCEPT !.joinedMessage = NoItem] ELSE s,
         LAMBDA s1 :
    With(IF s1.firstUnreadView = view THEN getNextFirstUnreadMessage(s1) ELSE s1,
         LAMBDA s2 :
    With(IF s2.unreadBarView = view THEN [s2 EXCEPT !.unreadBarView = NoItem] ELSE s2,
         LAMBDA s3 :
        IF s3.scrollTopItem = view THEN getNextScrollTopItem(s3, b, i) ELSE s3))))

\* Element::previousInBlocksChanged and nextInBlocksRemoved: the call is noted.
NoteCall(s, call, view) ==
    [s EXCEPT !.viewCalls = Append(@, [call |-> call, view |-> view])]

\* The last view of the window is told that nothing follows it.
NoteLastView(s) ==
    IF s.blocks # << >> /\ s.blocks[Len(s.blocks)] # << >>
    THEN NoteCall(s, "nextInBlocksRemoved", lastAvailableMessage(s))
    ELSE s

\* The cached indices from position `from` on are set to the positions.
Renumbered(cache, from) ==
    [k \in 1..Len(cache) |-> IF k >= from THEN k ELSE cache[k]]

\* A variant of removeBlock that does not renumber the blocks that follow.
removeBlockKeepsIndices(s, b) ==
    IF s.blocks[b] # << >> THEN Fail(s, "removeBlock")
    ELSE With(IF isBuildingFrontBlock(s) /\ ValueOf(s.buildingFrontBlock).block
                 /\ b = 1
              THEN [s EXCEPT !.buildingFrontBlock =
                       << [ValueOf(s.buildingFrontBlock) EXCEPT !.block = FALSE] >>]
              ELSE s,
              LAMBDA s1 :
         With(s1.indexInHistory[b], LAMBDA index :
         IF index < 1 \/ index > Len(s1.blocks) THEN Fail(s1, "removeBlock")
         ELSE With([s1 EXCEPT !.blocks = RemoveAt(@, index),
                              !.indexInHistory = RemoveAt(@, index),
                              !.indexInBlock = RemoveAt(@, index)], LAMBDA s2 :
              IF index <= Len(s2.blocks)
              THEN IF s2.blocks[index] = << >> THEN Fail(s2, "removeBlock")
                   ELSE NoteCall(s2, "previousInBlocksChanged", s2.blocks[index][1])
              ELSE NoteLastView(s2))))

\* b: the block; the block is erased at its cached index.
removeBlock(s, b) ==
    IF s.blocks[b] # << >> THEN Fail(s, "removeBlock")
    ELSE With(IF isBuildingFrontBlock(s) /\ ValueOf(s.buildingFrontBlock).block
                 /\ b = 1
              THEN [s EXCEPT !.buildingFrontBlock =
                       << [ValueOf(s.buildingFrontBlock) EXCEPT !.block = FALSE] >>]
              ELSE s,
              LAMBDA s1 :
         With(s1.indexInHistory[b], LAMBDA index :
         IF index < 1 \/ index > Len(s1.blocks) THEN Fail(s1, "removeBlock")
         ELSE With([s1 EXCEPT !.blocks = RemoveAt(@, index),
                              !.indexInHistory = RemoveAt(@, index),
                              !.indexInBlock = RemoveAt(@, index)], LAMBDA s2 :
              IF index <= Len(s2.blocks)
              THEN With([s2 EXCEPT !.indexInHistory = Renumbered(@, index)],
                        LAMBDA s3 :
                   IF s3.blocks[index] = << >> THEN Fail(s3, "removeBlock")
                   ELSE NoteCall(s3, "previousInBlocksChanged", s3.blocks[index][1]))
              ELSE NoteLastView(s2))))

\* A variant of HistoryBlock::remove that leaves an emptied block in place
\* when the block is neither the first nor the tail block.
HistoryBlockRemoveKeepsBlock(s, b, i) ==
    With(mainViewRemoved(s, b, i), LAMBDA s1 :
    With(s1.indexInHistory[b], LAMBDA blockIndex :
    With(s1.indexInBlock[b][i], LAMBDA itemIndex :
    IF itemIndex < 1 \/ itemIndex > Len(s1.blocks[b])
    THEN Fail(s1, "HistoryBlock::remove")
    ELSE With([s1 EXCEPT !.blocks[b] = RemoveAt(@, itemIndex),
                         !.indexInBlock[b] = Renumbered(RemoveAt(@, itemIndex),
                                                        itemIndex)],
              LAMBDA s2 :
         IF s2.blocks[b] = << >>
         THEN IF 1 < b /\ b < Len(s2.blocks) THEN NoteLastView(s2)
              ELSE removeBlock(s2, b)
         ELSE IF itemIndex <= Len(s2.blocks[b])
         THEN NoteCall(s2, "previousInBlocksChanged", s2.blocks[b][itemIndex])
         ELSE IF blockIndex + 1 <= Len(s2.blocks) /\ blockIndex + 1 >= 1
         THEN IF s2.blocks[blockIndex + 1] = << >>
              THEN Fail(s2, "HistoryBlock::remove")
              ELSE NoteCall(s2, "previousInBlocksChanged",
                            s2.blocks[blockIndex + 1][1])
         ELSE NoteLastView(s2)))))

\* HistoryBlock::remove(view) for the view at index i of block b: the view is
\* erased at its cached index.
HistoryBlockRemove(s, b, i) ==
    With(mainViewRemoved(s, b, i), LAMBDA s1 :
    With(s1.indexInHistory[b], LAMBDA blockIndex :
    With(s1.indexInBlock[b][i], LAMBDA itemIndex :
    IF itemIndex < 1 \/ itemIndex > Len(s1.blocks[b])
    THEN Fail(s1, "HistoryBlock::remove")
    ELSE With([s1 EXCEPT !.blocks[b] = RemoveAt(@, itemIndex),
                         !.indexInBlock[b] = Renumbered(RemoveAt(@, itemIndex),
                                                        itemIndex)],
              LAMBDA s2 :
         IF s2.blocks[b] = << >> THEN removeBlock(s2, b)
         ELSE IF itemIndex <= Len(s2.blocks[b])
         THEN NoteCall(s2, "previousInBlocksChanged", s2.blocks[b][itemIndex])
         ELSE IF blockIndex + 1 <= Len(s2.blocks) /\ blockIndex + 1 >= 1
         THEN IF s2.blocks[blockIndex + 1] = << >>
              THEN Fail(s2, "HistoryBlock::remove")
              ELSE NoteCall(s2, "previousInBlocksChanged",
                            s2.blocks[blockIndex + 1][1])
         ELSE NoteLastView(s2)))))

\* HistoryItem::removeMainView.
removeMainView(s, item) ==
    IF HasMainView(s, item)
    THEN With(BlockOf(s, item), LAMBDA b :
         With(IndexOf(s, item), LAMBDA i : HistoryBlockRemove(s, b, i)))
    ELSE s

\* A variant of prepareBlockForAddingItem that lets the last block take one
\* more item than kNewBlockEachMessage.
prepareBlockForAddingItemLate(s) ==
    IF isBuildingFrontBlock(s)
    THEN IF ValueOf(s.buildingFrontBlock).block THEN [s |-> s, b |-> 1]
         ELSE [s |-> [s EXCEPT !.blocks = << << >> >> \o s.blocks,
                               !.indexInHistory = [k \in 1..(Len(s.blocks) + 1) |-> k],
                               !.indexInBlock = << << >> >> \o @,
                               !.buildingFrontBlock =
                                   << [ValueOf(s.buildingFrontBlock) EXCEPT !.block = TRUE] >>],
               b |-> 1]
    ELSE IF s.blocks = << >> \/ Len(s.blocks[Len(s.blocks)]) > kNewBlockEachMessage
    THEN [s |-> [s EXCEPT !.blocks = Append(s.blocks, << >>),
                          !.indexInHistory = Append(@, Len(s.blocks) + 1),
                          !.indexInBlock = Append(@, << >>)],
          b |-> Len(s.blocks) + 1]
    ELSE [s |-> s, b |-> Len(s.blocks)]

\* Returns the state and the index of the block to add to.
prepareBlockForAddingItem(s) ==
    IF isBuildingFrontBlock(s)
    THEN IF ValueOf(s.buildingFrontBlock).block THEN [s |-> s, b |-> 1]
         ELSE [s |-> [s EXCEPT !.blocks = << << >> >> \o s.blocks,
                               !.indexInHistory = [k \in 1..(Len(s.blocks) + 1) |-> k],
                               !.indexInBlock = << << >> >> \o @,
                               !.buildingFrontBlock =
                                   << [ValueOf(s.buildingFrontBlock) EXCEPT !.block = TRUE] >>],
               b |-> 1]
    ELSE IF s.blocks = << >> \/ Len(s.blocks[Len(s.blocks)]) >= kNewBlockEachMessage
    THEN [s |-> [s EXCEPT !.blocks = Append(s.blocks, << >>),
                          !.indexInHistory = Append(@, Len(s.blocks) + 1),
                          !.indexInBlock = Append(@, << >>)],
          b |-> Len(s.blocks) + 1]
    ELSE [s |-> s, b |-> Len(s.blocks)]

\* A variant of addItemToBlock that puts the view at the front of its block.
addItemToBlockAtFront(s, item) ==
    IF s.failed # "" THEN s
    ELSE IF HasMainView(s, item) THEN Fail(s, "addItemToBlock")
    ELSE With(prepareBlockForAddingItem(s), LAMBDA p :
             [p.s EXCEPT !.blocks[p.b] = << item >> \o p.s.blocks[p.b],
                         !.indexInBlock[p.b] = Append(@, Len(p.s.blocks[p.b]) + 1)])

addItemToBlock(s, item) ==
    IF s.failed # "" THEN s
    ELSE IF HasMainView(s, item) THEN Fail(s, "addItemToBlock")
    ELSE With(prepareBlockForAddingItem(s), LAMBDA p :
         With([p.s EXCEPT !.blocks[p.b] = Append(p.s.blocks[p.b], item),
                          !.indexInBlock[p.b] = Append(@, Len(p.s.blocks[p.b]) + 1)],
              LAMBDA s1 :
             IF isBuildingFrontBlock(s1) /\ ValueOf(s1.buildingFrontBlock).expected > 0
             THEN [s1 EXCEPT !.buildingFrontBlock =
                      << [ValueOf(s1.buildingFrontBlock) EXCEPT !.expected = @ - 1] >>]
             ELSE s1))

startBuildingFrontBlock(s, expectedItemsCount) ==
    IF s.failed # "" THEN s
    ELSE IF isBuildingFrontBlock(s) \/ expectedItemsCount <= 0
    THEN Fail(s, "startBuildingFrontBlock")
    ELSE [s EXCEPT !.buildingFrontBlock =
             << [block |-> FALSE, expected |-> expectedItemsCount] >>]

\* A variant of finishBuildingFrontBlock that leaves the build in progress.
finishBuildingFrontBlockKeepsBuild(s) ==
    IF s.failed # "" THEN s
    ELSE IF ~isBuildingFrontBlock(s) THEN Fail(s, "finishBuildingFrontBlock")
    ELSE s

finishBuildingFrontBlock(s) ==
    IF s.failed # "" THEN s
    ELSE IF ~isBuildingFrontBlock(s) THEN Fail(s, "finishBuildingFrontBlock")
    ELSE [s EXCEPT !.buildingFrontBlock = << >>]

\* ------------------------------------------------------------------ items
\* App::histItemById: the live item object with this id, or null.
histItemById(s, id) ==
    IF \E x \in s.items : x.id = id
    THEN CHOOSE x \in s.items : x.id = id
    ELSE NoItem

\* HistoryItem::Create: a new item object for the raw message, entered in the
\* item table.  Returns the state and the item.
HistoryItemCreate(s, msg) ==
    With([id |-> msg.id, gen |-> s.created[msg.id] + 1, view |-> 1, out |-> msg.out,
          kind |-> msg.kind, date |-> msg.id, flagUnread |-> FALSE,
          markup |-> msg.markup],
         LAMBDA item :
             [s |-> [s EXCEPT !.items = @ \cup {item}, !.created[msg.id] = @ + 1],
              item |-> item])

\* A client-side item (HistoryService with clientMsgId()), entered in the table.
LocalItemCreate(s, kind, date, flagUnread) ==
    With([id |-> StartClientMsgId + s.nextLocal, gen |-> 1, view |-> 1, out |-> FALSE,
          kind |-> kind, date |-> date, flagUnread |-> flagUnread,
          markup |-> << >>],
         LAMBDA item :
             [s |-> [s EXCEPT !.items = @ \cup {item}, !.nextLocal = @ + 1],
              item |-> item])

\* A variant of createItem that never looks the id up in the item table.
createItemAlwaysNew(s, msg, detachExistingItem) ==
    IF msg.id = 0 THEN [s |-> s, item |-> NoItem]
    ELSE HistoryItemCreate(s, msg)

\* Returns the state and the item (null for a message without an id).
createItem(s, msg, detachExistingItem) ==
    IF msg.id = 0 THEN [s |-> s, item |-> NoItem]
    ELSE With(histItemById(s, msg.id), LAMBDA result :
             IF result # NoItem
             THEN [s |-> IF detachExistingItem THEN removeMainView(s, result) ELSE s,
                   item |-> result]
             ELSE HistoryItemCreate(s, msg))

\* createItems walks the page from its last message to its first.
RECURSIVE CreateItemsFrom(_, _, _)
CreateItemsFrom(s, rev, result) ==
    IF rev = << >> THEN [s |-> s, added |-> result]
    ELSE With(createItem(s, Head(rev), TRUE), LAMBDA c :
         With(IF c.item # NoItem THEN Append(result, c.item) ELSE result, LAMBDA r :
         With(Tail(rev), LAMBDA rest : CreateItemsFrom(c.s, rest, r))))

createItems(s, data) ==
    With(Reverse(data), LAMBDA rev : CreateItemsFrom(s, rev, << >>))

addToHistory(s, msg) == createItem(s, msg, FALSE)

\* ---------------------------------------------------------- unread mentions
\* HistoryItem::isUnreadMention: the message mentions the local user and was
\* not looked at yet.
isUnreadMention(item) ==
    item.id \in peer.mentionIds /\ item.kind = "text" /\ ~item.out

\* A variant of setUnreadMentionsCount that stores the count as received.
setUnreadMentionsCountAsReceived(s, count) ==
    [s EXCEPT !.unreadMentionsCount = << count >>]

setUnreadMentionsCount(s, count) ==
    IF Cardinality(s.unreadMentions) > count
    THEN [s EXCEPT !.unreadMentionsCount = << Cardinality(s.unreadMentions) >>]
    ELSE [s EXCEPT !.unreadMentionsCount = << count >>]

\* A variant of addToUnreadMentions that takes live mentions, and only those,
\* while the set is incomplete.
addToUnreadMentionsNewWhileIncomplete(s, msgId, type) ==
    IF isChannel /\ ~isMegagroup THEN [s |-> s, result |-> FALSE]
    ELSE IF type = "New"
    THEN With([s EXCEPT !.unreadMentions = @ \cup {msgId}], LAMBDA s1 :
             [s |-> IF Known(s.unreadMentionsCount)
                    THEN setUnreadMentionsCount(s1, ValueOf(s.unreadMentionsCount) + 1)
                    ELSE s1,
              result |-> TRUE])
    ELSE [s |-> s, result |-> FALSE]

\* type: "New" or "Existing".  Returns the state and whether the id was taken.
addToUnreadMentions(s, msgId, type) ==
    IF isChannel /\ ~isMegagroup THEN [s |-> s, result |-> FALSE]
    ELSE With(IF Known(s.unreadMentionsCount)
              THEN Cardinality(s.unreadMentions) >= ValueOf(s.unreadMentionsCount)
              ELSE FALSE,
              LAMBDA allLoaded :
         IF allLoaded
         THEN IF type = "New"
              THEN With([s EXCEPT !.unreadMentions = @ \cup {msgId}], LAMBDA s1 :
                       [s |-> setUnreadMentionsCount(
                                  s1, ValueOf(s.unreadMentionsCount) + 1),
                        result |-> TRUE])
              ELSE [s |-> s, result |-> FALSE]
         ELSE IF s.unreadMentions # {} /\ type # "New"
         THEN [s |-> [s EXCEPT !.unreadMentions = @ \cup {msgId}], result |-> TRUE]
         ELSE [s |-> s, result |-> FALSE])

eraseFromUnreadMentions(s, msgId) ==
    With([s EXCEPT !.unreadMentions = @ \ {msgId}], LAMBDA s1 :
        IF Known(s1.unreadMentionsCount) /\ ValueOf(s1.unreadMentionsCount) > 0
        THEN setUnreadMentionsCount(s1, ValueOf(s1.unreadMentionsCount) - 1)
        ELSE s1)

\* The loop of addUnreadMentionsSlice over the messages of the response.
RECURSIVE AddMentionsFrom(_, _, _)
AddMentionsFrom(s, messages, added) ==
    IF messages = << >> THEN [s |-> s, added |-> added]
    ELSE With(addToHistory(s, Head(messages)), LAMBDA c :
         With(c.item # NoItem /\ isUnreadMention(c.item), LAMBDA hit :
         With(IF hit THEN [c.s EXCEPT !.unreadMentions = @ \cup {c.item.id}] ELSE c.s,
              LAMBDA s1 :
         With(Tail(messages), LAMBDA rest :
             AddMentionsFrom(s1, rest, added \/ hit)))))

\* type: the variant of the response; total: the count field of a slice.
addUnreadMentionsSlice(s, type, total, messages) ==
    With(IF type = "messagesNotModified" THEN [s |-> s, added |-> FALSE]
         ELSE AddMentionsFrom(s, messages, FALSE),
         LAMBDA r :
    With(IF ~r.added THEN Cardinality(r.s.unreadMentions)
         ELSE IF type = "messages" THEN Len(messages)
         ELSE total,
         LAMBDA count : setUnreadMentionsCount(r.s, count)))

\* HistoryMessage::addToUnreadMentions: the item reports itself to its window.
ItemAddToUnreadMentions(s, item, type) ==
    IF IsServerMsgId(item.id) /\ isUnreadMention(item)
    THEN addToUnreadMentions(s, item.id, type).s
    ELSE s

RECURSIVE AddAllToUnreadMentions(_, _)
AddAllToUnreadMentions(s, seq) ==
    IF seq = << >> THEN s
    ELSE With(ItemAddToUnreadMentions(s, Head(seq), "Existing"), LAMBDA s1 :
         With(Tail(seq), LAMBDA rest : AddAllToUnreadMentions(s1, rest)))

\* The views the loop acts on: the others are passed over.
IsMentionView(item) == IsServerMsgId(item.id) /\ isUnreadMention(item)

checkAddAllToUnreadMentions(s) ==
    IF ~s.loadedAtBottom THEN s
    ELSE AddAllToUnreadMentions(s, SelectSeq(Flatten(s.blocks), IsMentionView))

\* ------------------------------------------------- typing and send actions
\* peer->isSelf(): the conversation with oneself is not among the peers.
isSelf == FALSE

isUser == peer.kind = "user"

TypingUsers(s) == { u \in Users : s.typing[u] # 0 }

ActingUsers(s) == { u \in Users : s.sendActions[u].type # "none" }

\* begin(map)->first and (end(map) - 1)->first of a flat_map, by key order.
FirstOf(S) == CHOOSE u \in S : \A v \in S : u <= v

LastOf(S) == CHOOSE u \in S : \A v \in S : u >= v

\* The lambda sendActionString; name 0 is the empty name used in a private chat.
SendActionStringOf(type, name) ==
    IF type = "RecordVideo"
    THEN IF name = 0
         THEN [NoString EXCEPT !.form = "lng_send_action_record_video"]
         ELSE [NoString EXCEPT !.form = "lng_user_action_record_video", !.user = name]
    ELSE IF type = "ChooseLocation" \/ type = "ChooseContact"
    THEN IF name = 0
         THEN [NoString EXCEPT !.form = "lng_typing"]
         ELSE [NoString EXCEPT !.form = "lng_user_typing", !.user = name]
    ELSE NoString

\* The status text for the entries that remain.
NewTypingString(s) ==
    With(Cardinality(TypingUsers(s)), LAMBDA typingCount :
        IF typingCount > 2
        THEN [NoString EXCEPT !.form = "lng_many_typing", !.count = typingCount]
        ELSE IF typingCount > 1
        THEN [NoString EXCEPT !.form = "lng_users_typing",
                              !.user = FirstOf(TypingUsers(s)),
                              !.second = LastOf(TypingUsers(s))]
        ELSE IF typingCount > 0
        THEN IF isUser THEN [NoString EXCEPT !.form = "lng_typing"]
             ELSE [NoString EXCEPT !.form = "lng_user_typing",
                                   !.user = FirstOf(TypingUsers(s))]
        ELSE IF ActingUsers(s) # {}
        THEN With({ u \in ActingUsers(s) : s.sendActions[u].type # "PlayGame" },
                  LAMBDA named :
             IF named # {}
             THEN SendActionStringOf(s.sendActions[FirstOf(named)].type,
                                     IF isUser THEN 0 ELSE FirstOf(named))
             ELSE With(Cardinality(ActingUsers(s)), LAMBDA playingCount :
                  IF playingCount > 2
                  THEN [NoString EXCEPT !.form = "lng_many_playing_game",
                                        !.count = playingCount]
                  ELSE IF playingCount > 1
                  THEN [NoString EXCEPT !.form = "lng_users_playing_game",
                                        !.user = FirstOf(ActingUsers(s)),
                                        !.second = LastOf(ActingUsers(s))]
                  ELSE IF isUser THEN [NoString EXCEPT !.form = "lng_playing_game"]
                  ELSE [NoString EXCEPT !.form = "lng_user_playing_game",
                                        !.user = FirstOf(ActingUsers(s))]))
        ELSE NoString)

\* A variant of the sweep that keeps the entries that expire exactly at t.
updateSendActionNeedsAnimatingLate(s, t, force) ==
    With([s EXCEPT
             !.typing = [u \in Users |-> IF t > @[u] THEN 0 ELSE @[u]],
             !.sendActions = [u \in Users |->
                                 IF t > @[u].until THEN NoAction ELSE @[u]]],
         LAMBDA s1 :
    With(force \/ s1.typing # s.typing \/ s1.sendActions # s.sendActions,
         LAMBDA changed :
        [s |-> IF changed THEN [s1 EXCEPT !.sendActionString = NewTypingString(s1)]
               ELSE s1,
         result |-> (TypingUsers(s1) # {} \/ ActingUsers(s1) # {})]))

\* updateSendActionNeedsAnimating(now, force), the sweep.  Returns the state
\* and the result.
updateSendActionNeedsAnimating(s, t, force) ==
    With([s EXCEPT
             !.typing = [u \in Users |-> IF t >= @[u] THEN 0 ELSE @[u]],
             !.sendActions = [u \in Users |->
                                 IF t >= @[u].until THEN NoAction ELSE @[u]]],
         LAMBDA s1 :
    With(force \/ s1.typing # s.typing \/ s1.sendActions # s.sendActions,
         LAMBDA changed :
        [s |-> IF changed THEN [s1 EXCEPT !.sendActionString = NewTypingString(s1)]
               ELSE s1,
         result |-> (TypingUsers(s1) # {} \/ ActingUsers(s1) # {})]))

\* A variant of clearSendAction that leaves the entries to expire by themselves.
clearSendActionWaits(s, from) ==
    IF from \in Users /\ (s.typing[from] # 0 \/ s.sendActions[from].type # "none")
    THEN updateSendActionNeedsAnimating(s, now, TRUE).s
    ELSE s

\* from 0 is a sender without entries (the local user, or not a user's).
clearSendAction(s, from) ==
    IF from \notin Users THEN s
    ELSE With(IF s.typing[from] # 0 THEN now ELSE 0, LAMBDA atTyping :
         With(IF atTyping # 0 THEN [s EXCEPT !.typing[from] = atTyping] ELSE s,
              LAMBDA s1 :
         With(IF s1.sendActions[from].type # "none" /\ atTyping = 0 THEN now
              ELSE atTyping,
              LAMBDA updateAtMs :
         With(IF s1.sendActions[from].type # "none"
              THEN [s1 EXCEPT !.sendActions[from].until = updateAtMs]
              ELSE s1,
              LAMBDA s2 :
             IF updateAtMs # 0
             THEN updateSendActionNeedsAnimating(s2, updateAtMs, TRUE).s
             ELSE s2))))

\* Of the actions that name what is recorded, uploaded or chosen, which
\* differ in their phrase only, RecordVideo stands for all.
SendMessageActions == {"Typing", "RecordVideo", "GamePlay", "Cancel"}

\* updateSendActionNeedsAnimating(user, action).  Returns the state and the
\* result.
updateSendActionNeedsAnimatingFor(s, user, action) ==
    IF isSelf THEN [s |-> s, result |-> FALSE]
    ELSE IF action = "Cancel"
    THEN [s |-> clearSendAction(s, user), result |-> FALSE]
    ELSE With(IF action = "Typing"
              THEN [s EXCEPT !.typing[user] = now + kStatusShowClientsideTyping]
              ELSE IF action = "RecordVideo"
              THEN [s EXCEPT !.sendActions[user] =
                       [type |-> "RecordVideo",
                        until |-> now + kStatusShowClientsideRecordVideo]]
              ELSE IF \/ s.sendActions[user].type = "none"
                      \/ s.sendActions[user].type = "PlayGame"
                      \/ s.sendActions[user].until <= now
              THEN [s EXCEPT !.sendActions[user] =
                       [type |-> "PlayGame",
                        until |-> now + kStatusShowClientsidePlayGame]]
              ELSE s,
              LAMBDA s1 : updateSendActionNeedsAnimating(s1, now, TRUE))

\* HistoryItem::from() as a user, 0 when the sender is the local user; the
\* server ids are spread over the users.
fromOf(item) ==
    IF IsServerMsgId(item.id) /\ ~item.out
    THEN IF isUser THEN 1 ELSE ((item.id - 1) % MaxUsers) + 1
    ELSE 0

\* HistoryItem::author(): the sender, as no modelled conversation has posts.
authorOf(item) == fromOf(item)

\* HistoryItem::indexAsNewItem: a message that arrived live reports its mention.
indexAsNewItem(s, item) == ItemAddToUnreadMentions(s, item, "New")

\* MainWidget::newUnreadMsg: the unread counter grows by one.
newUnreadMsg(s, item) == setUnreadCount(s, unreadCountOf(s) + 1)

\* A variant of newItemAdded that does not count an unread inbound item.
newItemAddedNoCount(s0, item) ==
    With(indexAsNewItem(s0, item), LAMBDA sa :
    With(IF fromOf(item) # 0 /\ fromOf(item) = authorOf(item)
         THEN clearSendAction(sa, fromOf(item)) ELSE sa, LAMBDA s :
    IF item.out
    THEN With([s EXCEPT !.unreadBarView = NoItem], LAMBDA s1 :
             IF ~unread(s1, item) THEN outboxReadItem(s1, item) ELSE s1)
    ELSE IF unread(s, item) THEN s
    ELSE inboxReadItem(s, item)))

newItemAdded(s0, item) ==
    With(indexAsNewItem(s0, item), LAMBDA sa :
    With(IF fromOf(item) # 0 /\ fromOf(item) = authorOf(item)
         THEN clearSendAction(sa, fromOf(item)) ELSE sa, LAMBDA s :
    IF item.out
    THEN With([s EXCEPT !.unreadBarView = NoItem], LAMBDA s1 :
             IF ~unread(s1, item) THEN outboxReadItem(s1, item) ELSE s1)
    ELSE IF unread(s, item)
    THEN IF ~isChannel \/ peer.amIn
         THEN With([s EXCEPT !.notifies = Append(@, item)], LAMBDA s1 :
                  newUnreadMsg(s1, item))
         ELSE s
    ELSE inboxReadItem(s, item)))

\* ---------------------------------------------------------- reply keyboard
\* The id of the local user as a sender.
SelfId == MaxUsers + 1

\* item->from()->id: the sender, the local user for what the window itself made.
fromIdOf(item) == IF fromOf(item) # 0 THEN fromOf(item) ELSE SelfId

\* UserData::botInfo: the first user is a bot, the others are people.
isBot(user) == user = 1

\* HistoryItem::definesReplyKeyboard and replyKeyboardFlags: the descriptor the
\* item carries, a set of flags; f_zero is the hide sentinel.
definesReplyKeyboard(item) == Known(item.markup)

replyKeyboardFlags(item) == ValueOf(item.markup)

\* HistoryItem::mentionsMe: the message mentions the local user.
mentionsMe(item) == item.id \in peer.mentionIds

\* peer->canWrite(): members can write.
canWrite == peer.amIn

isChat == peer.kind = "chat"

\* lastKeyboardHiddenId belongs to the message field and is not kept here.
clearLastKeyboard(s) ==
    [s EXCEPT !.lastKeyboardId = 0, !.lastKeyboardInited = TRUE,
              !.lastKeyboardFrom = 0]

\* The botNotInChat test of addNewItem and addItemsToLists; every sender is a
\* user.
botNotInChat(s, user) ==
    IF isChat
    THEN (s.participants # {} \/ ~canWrite) /\ user \notin s.participants
    ELSE IF isMegagroup
    THEN (s.botStatus # 0 \/ ~canWrite) /\ user \notin s.mgBots
    ELSE FALSE

\* The item becomes the tracked keyboard.
SetLastKeyboard(s, item, user) ==
    [s EXCEPT !.lastKeyboardInited = TRUE, !.lastKeyboardId = item.id,
              !.lastKeyboardFrom = user, !.lastKeyboardUsed = FALSE]

\* addNewItem, the sender part: a bot that writes in a megagroup is one of its
\* bots.
addNewItemSender(s, item) ==
    IF isMegagroup /\ isBot(fromIdOf(item))
    THEN [s EXCEPT !.mgBots = @ \cup {fromIdOf(item)},
                   !.botStatus = IF @ # 0 /\ @ < 2 THEN 2 ELSE @]
    ELSE s

\* A variant of the reply-keyboard part of addNewItem that tracks the keyboard
\* of an absent bot as well.
addNewItemReplyKeyboardOfAbsent(s, item) ==
    IF ~definesReplyKeyboard(item) THEN s
    ELSE IF "f_selective" \in replyKeyboardFlags(item) /\ ~mentionsMe(item) THEN s
    ELSE With(IF isChat \/ isMegagroup
              THEN [s EXCEPT !.markupSenders = @ \cup {fromIdOf(item)}]
              ELSE s, LAMBDA s1 :
         IF "f_zero" \in replyKeyboardFlags(item)
         THEN IF \/ s1.lastKeyboardFrom = fromIdOf(item)
                 \/ (~s1.lastKeyboardInited /\ ~isChat /\ ~isMegagroup /\ ~item.out)
              THEN clearLastKeyboard(s1)
              ELSE s1
         ELSE SetLastKeyboard(s1, item, fromIdOf(item)))

\* addNewItem, the reply-keyboard part.
addNewItemReplyKeyboard(s, item) ==
    IF ~definesReplyKeyboard(item) THEN s
    ELSE IF "f_selective" \in replyKeyboardFlags(item) /\ ~mentionsMe(item) THEN s
    ELSE With(IF isChat \/ isMegagroup
              THEN [s EXCEPT !.markupSenders = @ \cup {fromIdOf(item)}]
              ELSE s, LAMBDA s1 :
         IF "f_zero" \in replyKeyboardFlags(item)
         THEN IF \/ s1.lastKeyboardFrom = fromIdOf(item)
                 \/ (~s1.lastKeyboardInited /\ ~isChat /\ ~isMegagroup /\ ~item.out)
              THEN clearLastKeyboard(s1)
              ELSE s1
         ELSE IF botNotInChat(s1, fromIdOf(item)) THEN clearLastKeyboard(s1)
         ELSE SetLastKeyboard(s1, item, fromIdOf(item)))

\* addItemsToLists, the reply-keyboard part for one item: a loaded page gives
\* the tracked keyboard only while there is none yet.
addItemsToListsReplyKeyboard(s, item) ==
    IF s.lastKeyboardInited \/ ~definesReplyKeyboard(item) \/ item.out THEN s
    ELSE IF "f_selective" \in replyKeyboardFlags(item) /\ ~mentionsMe(item) THEN s
    ELSE IF isChat \/ isMegagroup
    THEN With(fromIdOf(item) \in s.markupSenders, LAMBDA wasKeyboardHide :
         With([s EXCEPT !.markupSenders = @ \cup {fromIdOf(item)}], LAMBDA s1 :
             IF "f_zero" \in replyKeyboardFlags(item) THEN s1
             ELSE IF wasKeyboardHide \/ botNotInChat(s1, fromIdOf(item))
             THEN clearLastKeyboard(s1)
             ELSE SetLastKeyboard(s1, item, fromIdOf(item))))
    ELSE IF "f_zero" \in replyKeyboardFlags(item) THEN clearLastKeyboard(s)
    ELSE SetLastKeyboard(s, item, fromIdOf(item))

RECURSIVE AddAllToLists(_, _)
AddAllToLists(s, seq) ==
    IF seq = << >> THEN s
    ELSE With(ItemAddToUnreadMentions(s, Head(seq), "Existing"), LAMBDA s1 :
         With(addItemsToListsReplyKeyboard(s1, Head(seq)), LAMBDA s2 :
         With(Tail(seq), LAMBDA rest : AddAllToLists(s2, rest))))

\* addItemsToLists walks the items in reverse.
addItemsToLists(s, added) ==
    With(Reverse(added), LAMBDA rev : AddAllToLists(s, rev))

\* A variant of addNewItem that leaves lastMessage alone.
addNewItemKeepsLast(s, item, unreadFlag) ==
    IF s.failed # "" THEN s
    ELSE IF isBuildingFrontBlock(s) THEN Fail(s, "addNewItem")
    ELSE With(addItemToBlock(s, item), LAMBDA s0 :
         With(addNewItemSender(s0, item), LAMBDA sa :
         With(addNewItemReplyKeyboard(sa, item), LAMBDA s1 :
             IF unreadFlag THEN newItemAdded(s1, item) ELSE s1)))

addNewItem(s, item, unreadFlag) ==
    IF s.failed # "" THEN s
    ELSE IF isBuildingFrontBlock(s) THEN Fail(s, "addNewItem")
    ELSE With(addItemToBlock(s, item), LAMBDA s0 :
         With(addNewItemSender(s0, item), LAMBDA sa :
         With(addNewItemReplyKeyboard(sa, item), LAMBDA s1 :
         With(setLastMessage(s1, item), LAMBDA s2 :
             IF unreadFlag THEN newItemAdded(s2, item) ELSE s2))))

\* A variant of addNewInTheMiddle that leaves the cached indices of the later
\* views of the block as they were.
addNewInTheMiddleKeepsIndices(s, item, b, pos) ==
    IF s.failed # "" THEN s
    ELSE IF b < 1 \/ b > Len(s.blocks) THEN Fail(s, "addNewInTheMiddle")
    ELSE IF pos < 1 \/ pos > Len(s.blocks[b]) + 1 THEN Fail(s, "addNewInTheMiddle")
    ELSE With([s EXCEPT !.blocks[b] = InsertAt(@, pos, item),
                        !.indexInBlock[b] = InsertAt(@, pos, pos)], LAMBDA s1 :
         IF pos + 1 <= Len(s1.blocks[b])
         THEN NoteCall(s1, "previousInBlocksChanged", s1.blocks[b][pos + 1])
         ELSE IF b + 1 <= Len(s1.blocks) /\ s1.blocks[b + 1] # << >>
         THEN NoteCall(s1, "previousInBlocksChanged", s1.blocks[b + 1][1])
         ELSE NoteCall(s1, "nextInBlocksRemoved", item))

\* b: block (from 1); pos: the position (from 1) the item takes in that block.
addNewInTheMiddle(s, item, b, pos) ==
    IF s.failed # "" THEN s
    ELSE IF b < 1 \/ b > Len(s.blocks) THEN Fail(s, "addNewInTheMiddle")
    ELSE IF pos < 1 \/ pos > Len(s.blocks[b]) + 1 THEN Fail(s, "addNewInTheMiddle")
    ELSE With([s EXCEPT !.blocks[b] = InsertAt(@, pos, item),
                        !.indexInBlock[b] = InsertAt(@, pos, pos)], LAMBDA s1 :
         IF pos + 1 <= Len(s1.blocks[b])
         THEN With([s1 EXCEPT !.indexInBlock[b] = Renumbered(@, pos + 1)], LAMBDA s2 :
                  NoteCall(s2, "previousInBlocksChanged", s2.blocks[b][pos + 1]))
         ELSE IF b + 1 <= Len(s1.blocks) /\ s1.blocks[b + 1] # << >>
         THEN NoteCall(s1, "previousInBlocksChanged", s1.blocks[b + 1][1])
         ELSE NoteCall(s1, "nextInBlocksRemoved", item))

\* --------------------------------------------------------- joined message
\* The backward walk of insertJoinedMessage from view i of block b.
RECURSIVE JoinedScan(_, _, _)
JoinedScan(s, b, i) ==
    IF b = 0 THEN [what |-> "front", b |-> 0, pos |-> 0]
    ELSE IF i = 0
    THEN JoinedScan(s, b - 1, IF b > 1 THEN Len(s.blocks[b - 1]) ELSE 0)
    ELSE IF s.blocks[b][i].id = 1 /\ peer.kind = "megagroup" /\ peer.migrateFrom
    THEN [what |-> "found", b |-> b, pos |-> i]
    ELSE IF s.blocks[b][i].date <= peer.inviteDate
    THEN [what |-> "insert", b |-> b, pos |-> i + 1]
    ELSE JoinedScan(s, b, i - 1)

\* GenerateJoinedMessage, kept in _joinedMessage.  Returns the state and the item.
GenerateJoinedMessage(s) ==
    With(LocalItemCreate(s, "joined", peer.inviteDate, FALSE), LAMBDA g :
        [s |-> [g.s EXCEPT !.joinedMessage = g.item], item |-> g.item])

\* Returns the state and the HistoryService* result.
insertJoinedMessage(s, unreadFlag) ==
    IF \/ ~isChannel
       \/ s.joinedMessage # NoItem
       \/ ~peer.amIn
       \/ (peer.kind = "megagroup" /\ s.joinedMessageFound)
    THEN [s |-> s, item |-> s.joinedMessage]
    ELSE IF ~peer.invited THEN [s |-> s, item |-> NoItem]
    ELSE IF isEmpty(s)
    THEN With(GenerateJoinedMessage(s), LAMBDA g :
             [s |-> addNewItem(g.s, g.item, unreadFlag), item |-> g.item])
    ELSE With(JoinedScan(s, Len(s.blocks), Len(s.blocks[Len(s.blocks)])), LAMBDA where :
         IF where.what = "found"
         THEN [s |-> [s EXCEPT !.joinedMessageFound = TRUE], item |-> NoItem]
         ELSE With(GenerateJoinedMessage(s), LAMBDA g :
              IF where.what = "insert"
              THEN With(addNewInTheMiddle(g.s, g.item, where.b, where.pos), LAMBDA s2 :
                   IF s2.chatListTimeId = 0 \/ peer.inviteDate >= s2.chatListTimeId
                   THEN With(setLastMessage(s2, g.item), LAMBDA a :
                            [s |-> IF unreadFlag THEN newItemAdded(a, g.item) ELSE a,
                             item |-> g.item])
                   ELSE [s |-> s2, item |-> g.item])
              ELSE With(startBuildingFrontBlock(g.s, 1), LAMBDA s2 :
                   With(addItemToBlock(s2, g.item), LAMBDA s3 :
                       [s |-> finishBuildingFrontBlock(s3), item |-> g.item]))))

\* The tail of checkJoinedMessage: the marker became the window's last message.
JoinedBecomesLast(r) ==
    IF r.item # NoItem /\ HasMainView(r.s, r.s.joinedMessage)
    THEN setLastMessage(r.s, r.s.joinedMessage)
    ELSE r.s

checkJoinedMessage(s, createUnread) ==
    IF ~isChannel \/ s.joinedMessage # NoItem \/ ~peer.invited THEN s
    ELSE IF isEmpty(s) /\ s.loadedAtTop /\ s.loadedAtBottom
    THEN With(insertJoinedMessage(s, createUnread), LAMBDA r : JoinedBecomesLast(r))
    ELSE IF isEmpty(s) THEN s
    ELSE With(s.blocks[1][1].date, LAMBDA firstDate :
         With(lastAvailableMessage(s).date, LAMBDA lastDate :
             IF /\ firstDate # 0
                /\ lastDate # 0
                /\ (firstDate <= peer.inviteDate \/ s.loadedAtTop)
                /\ (lastDate > peer.inviteDate \/ s.loadedAtBottom)
             THEN With(peer.inviteDate >= lastDate, LAMBDA willBeLastMsg :
                  With(insertJoinedMessage(s, createUnread /\ willBeLastMsg), LAMBDA r :
                      IF willBeLastMsg THEN JoinedBecomesLast(r) ELSE r.s))
             ELSE s))

\* ------------------------------------------------------ unloading, removal
forgetScrollState(s) == [s EXCEPT !.scrollTopItem = NoItem]

\* The scroll position picks the view at the top of the viewport; which one
\* depends on the geometry, so any loaded view can be the outcome.
countScrollTopItem(s, view) ==
    IF isEmpty(s) THEN forgetScrollState(s)
    ELSE [s EXCEPT !.scrollTopItem = view]

\* The sibling window of a migrated group adds its own count; it has none here.
chatListUnreadCount(s) == unreadCountOf(s)

addUnreadBar(s) ==
    IF s.unreadBarView # NoItem \/ s.firstUnreadView = NoItem \/ unreadCountOf(s) = 0
    THEN s
    ELSE IF chatListUnreadCount(s) # 0
    THEN [s EXCEPT !.unreadBarView = s.firstUnreadView]
    ELSE s

\* A variant of clearBlocks that also drops the front-block build descriptor.
clearBlocksDiscardsBuild(s, leaveItems) ==
    With([s EXCEPT !.unreadBarView = NoItem, !.firstUnreadView = NoItem,
                   !.joinedMessage = NoItem, !.scrollTopItem = NoItem,
                   !.buildingFrontBlock = << >>], LAMBDA s1 :
    With(IF leaveItems THEN s1
         ELSE With(IF isChannel THEN [s1 EXCEPT !.lastMessage = << >>]
                   ELSE setLastMessage(s1, NoItem),
                   LAMBDA a : [a EXCEPT !.notifies = << >>]),
         LAMBDA s2 :
    With([s2 EXCEPT !.blocks = << >>, !.indexInHistory = << >>,
                    !.indexInBlock = << >>], LAMBDA s3 :
    With(IF leaveItems THEN [s3 EXCEPT !.lastKeyboardInited = FALSE]
         ELSE clearLastKeyboard(changeUnreadCount(s3, 0 - unreadCountOf(s3))),
         LAMBDA s4 :
        [s4 EXCEPT !.loadedAtTop = FALSE, !.loadedAtBottom = ~leaveItems,
                   !.markupSenders = {}]))))

\* A variant of clearBlocks that keeps the unread anchors.
clearBlocksKeepsAnchors(s, leaveItems) ==
    With([s EXCEPT !.joinedMessage = NoItem, !.scrollTopItem = NoItem], LAMBDA s1 :
    With(IF leaveItems THEN s1
         ELSE With(IF isChannel THEN [s1 EXCEPT !.lastMessage = << >>]
                   ELSE setLastMessage(s1, NoItem),
                   LAMBDA a : [a EXCEPT !.notifies = << >>]),
         LAMBDA s2 :
    With([s2 EXCEPT !.blocks = << >>, !.indexInHistory = << >>,
                    !.indexInBlock = << >>], LAMBDA s3 :
    With(IF leaveItems THEN [s3 EXCEPT !.lastKeyboardInited = FALSE]
         ELSE clearLastKeyboard(changeUnreadCount(s3, 0 - unreadCountOf(s3))),
         LAMBDA s4 :
        [s4 EXCEPT !.loadedAtTop = FALSE, !.loadedAtBottom = ~leaveItems,
                   !.markupSenders = {}]))))

clearBlocks(s, leaveItems) ==
    With([s EXCEPT !.unreadBarView = NoItem, !.firstUnreadView = NoItem,
                   !.joinedMessage = NoItem, !.scrollTopItem = NoItem], LAMBDA s1 :
    With(IF leaveItems THEN s1
         ELSE With(IF isChannel THEN [s1 EXCEPT !.lastMessage = << >>]
                   ELSE setLastMessage(s1, NoItem),
                   LAMBDA a : [a EXCEPT !.notifies = << >>]),
         LAMBDA s2 :
    With([s2 EXCEPT !.blocks = << >>, !.indexInHistory = << >>,
                    !.indexInBlock = << >>], LAMBDA s3 :
    With(IF leaveItems THEN [s3 EXCEPT !.lastKeyboardInited = FALSE]
         ELSE clearLastKeyboard(changeUnreadCount(s3, 0 - unreadCountOf(s3))),
         LAMBDA s4 :
        [s4 EXCEPT !.loadedAtTop = FALSE, !.loadedAtBottom = ~leaveItems,
                   !.markupSenders = {}]))))

\* A variant of unloadBlocks that also drops the pending notifications.
unloadBlocksAndNotifications(s) == clearNotifications(clearBlocks(s, TRUE))

unloadBlocks(s) == clearBlocks(s, TRUE)

hasOrphanMediaGroupPart(s) ==
    /\ ~s.loadedAtTop
    /\ s.loadedAtBottom
    /\ Len(s.blocks) = 1
    /\ Len(s.blocks[1]) = 1
    /\ hasGroupId(s.blocks[1][1])

removeOrphanMediaGroupPart(s) ==
    IF hasOrphanMediaGroupPart(s) THEN unloadBlocks(s) ELSE s

\* std::find and erase: the first occurrence of the item leaves the queue.
RECURSIVE RemoveFirst(_, _)
RemoveFirst(seq, item) ==
    IF seq = << >> THEN << >>
    ELSE IF Head(seq) = item THEN Tail(seq)
    ELSE << Head(seq) >> \o RemoveFirst(Tail(seq), item)

removeNotification(s, item) == [s EXCEPT !.notifies = RemoveFirst(@, item)]

itemVanished(s, item) ==
    With(removeNotification(s, item), LAMBDA s0 :
    With(IF s0.lastKeyboardId = item.id THEN clearLastKeyboard(s0) ELSE s0,
         LAMBDA s1 :
        IF ~item.out /\ unread(s1, item) /\ unreadCountOf(s1) > 0
        THEN changeUnreadCount(s1, -1)
        ELSE s1))

\* A variant of itemRemoved that does not reset lastMessage before it looks
\* for the next one.
itemRemovedKeepsLast(s, item) ==
    With(removeMainView(s, item), LAMBDA s1 :
    With(IF lastMessageOf(s1) = item
            /\ s1.loadedAtBottom /\ lastAvailableMessage(s1) # NoItem
         THEN setLastMessage([s1 EXCEPT !.lastMessage = << >>], lastAvailableMessage(s1))
         ELSE s1,
         LAMBDA s2 :
    With(checkChatListMessageRemoved(s2, item), LAMBDA s3 :
        itemVanished(s3, item))))

itemRemoved(s, item) ==
    With(removeMainView(s, item), LAMBDA s1 :
    With(IF lastMessageOf(s1) = item
         THEN With([s1 EXCEPT !.lastMessage = << >>], LAMBDA a :
                  IF a.loadedAtBottom /\ lastAvailableMessage(a) # NoItem
                  THEN setLastMessage(a, lastAvailableMessage(a))
                  ELSE a)
         ELSE s1,
         LAMBDA s2 :
    With(checkChatListMessageRemoved(s2, item), LAMBDA s3 :
        itemVanished(s3, item))))

\* HistoryItem::destroy: the window forgets the item, then the object is deleted.
destroy(s, item) ==
    With(itemRemoved(s, item), LAMBDA s1 : [s1 EXCEPT !.items = @ \ {item}])

RECURSIVE ReplaceInSeq(_, _, _)
ReplaceInSeq(seq, old, new) ==
    IF seq = << >> THEN << >>
    ELSE << IF Head(seq) = old THEN new ELSE Head(seq) >>
         \o ReplaceInSeq(Tail(seq), old, new)

RECURSIVE ReplaceInBlocks(_, _, _)
ReplaceInBlocks(bs, old, new) ==
    IF bs = << >> THEN << >>
    ELSE << ReplaceInSeq(Head(bs), old, new) >> \o ReplaceInBlocks(Tail(bs), old, new)

\* HistoryItem::applyEdition with a history-clear service message: the same object
\* with new content.
ReplaceItem(s, old, new) ==
    [s EXCEPT !.blocks = ReplaceInBlocks(@, old, new),
              !.items = { IF x = old THEN new ELSE x : x \in s.items },
              !.lastMessage = ReplaceInSeq(@, old, new),
              !.chatListMessage = ReplaceInSeq(@, old, new),
              !.firstUnreadView = IF @ = old THEN new ELSE @,
              !.unreadBarView = IF @ = old THEN new ELSE @,
              !.scrollTopItem = IF @ = old THEN new ELSE @,
              !.joinedMessage = IF @ = old THEN new ELSE @,
              !.notifies = ReplaceInSeq(@, old, new)]

\* A variant of viewReplaced that leaves the unread bar on the old view.
viewReplacedKeepsBar(s, was, now_) ==
    [s EXCEPT !.scrollTopItem = IF @ = was THEN now_ ELSE @,
              !.firstUnreadView = IF @ = was THEN now_ ELSE @]

viewReplaced(s, was, now_) ==
    [s EXCEPT !.scrollTopItem = IF @ = was THEN now_ ELSE @,
              !.firstUnreadView = IF @ = was THEN now_ ELSE @,
              !.unreadBarView = IF @ = was THEN now_ ELSE @]

\* HistoryBlock::refreshView: the item at (b, i) gets a new Element, the window
\* is told, and the new Element takes the place of the old one in the block
\* and as the item's main view.
HistoryBlockRefreshView(s, b, i) ==
    With(s.blocks[b][i], LAMBDA was :
    With([was EXCEPT !.view = @ + 1], LAMBDA refreshed :
    With(s.indexInHistory[b], LAMBDA blockIndex :
    With(s.indexInBlock[b][i], LAMBDA itemIndex :
    With(viewReplaced(s, was, refreshed), LAMBDA s1 :
    IF itemIndex < 1 \/ itemIndex > Len(s1.blocks[b])
    THEN Fail(s1, "HistoryBlock::refreshView")
    ELSE With([s1 EXCEPT !.blocks[b][itemIndex] = refreshed,
                         !.indexInBlock[b][itemIndex] = itemIndex,
                         !.items = { IF x = was THEN refreshed ELSE x : x \in s1.items },
                         !.lastMessage = ReplaceInSeq(@, was, refreshed),
                         !.chatListMessage = ReplaceInSeq(@, was, refreshed),
                         !.joinedMessage = IF @ = was THEN refreshed ELSE @,
                         !.notifies = ReplaceInSeq(@, was, refreshed)], LAMBDA s2 :
         IF itemIndex + 1 <= Len(s2.blocks[b])
         THEN NoteCall(s2, "previousInBlocksChanged", s2.blocks[b][itemIndex + 1])
         ELSE IF blockIndex + 1 <= Len(s2.blocks) /\ blockIndex + 1 >= 1
         THEN IF s2.blocks[blockIndex + 1] = << >>
              THEN Fail(s2, "HistoryBlock::refreshView")
              ELSE NoteCall(s2, "previousInBlocksChanged",
                            s2.blocks[blockIndex + 1][1])
         ELSE NoteLastView(s2)))))))

RECURSIVE ClearUpTillLoop(_, _)
ClearUpTillLoop(s, availableMinId) ==
    With(s.blocks[1][1], LAMBDA item :
        IF IsServerMsgId(item.id) /\ item.id >= availableMinId
        THEN IF item.id = availableMinId
             THEN ReplaceItem(s, item, [item EXCEPT !.kind = "cleared"])
             ELSE s
        ELSE With(destroy(s, item), LAMBDA s1 :
                 IF ~isEmpty(s1) THEN ClearUpTillLoop(s1, availableMinId) ELSE s1))

clearUpTill(s, availableMinId) ==
    IF minMsgId(s) = 0 \/ minMsgId(s) > availableMinId THEN s
    ELSE With(ClearUpTillLoop(s, availableMinId), LAMBDA s1 :
             requestChatListMessage(s1))

\* --------------------------------------------------------------- ingestion
\* applyMessageChanges: a migration service message deactivates the legacy group.
applyMessageChanges(s, item, msg) ==
    IF msg.kind = "migrate" /\ peer.kind = "chat" THEN [s EXCEPT !.migrateTo = TRUE]
    ELSE s

checkForLoadedAtTop(s, added) ==
    IF peer.kind = "chat"
    THEN IF isGroupEssential(added) /\ ~isGroupMigrate(added)
         THEN [s EXCEPT !.loadedAtTop = TRUE]
         ELSE s
    ELSE IF isChannel
    THEN IF added.id = 1
         THEN With([s EXCEPT !.loadedAtTop = TRUE], LAMBDA s1 :
                  checkJoinedMessage(s1, FALSE))
         ELSE s
    ELSE s

\* type is "Last", "Unread" or "Existing" (NewMessageType).
addNewToLastBlock(s, msg, type) ==
    IF type = "Existing" THEN [s |-> Fail(s, "addNewToLastBlock"), item |-> NoItem]
    ELSE With(createItem(s, msg, type # "Last"), LAMBDA c :
         IF c.item = NoItem \/ HasMainView(c.s, c.item) THEN c
         ELSE With(IF type = "Unread" THEN applyMessageChanges(c.s, c.item, msg)
                   ELSE c.s,
                   LAMBDA s1 :
              With(addNewItem(s1, c.item, type = "Unread"), LAMBDA s2 :
              With(checkForLoadedAtTop(s2, c.item), LAMBDA s3 :
                  [s |-> IF type = "Last" THEN removeOrphanMediaGroupPart(s3) ELSE s3,
                   item |-> c.item]))))

\* A variant of addNewMessage that splices into the tail whatever the edge flag.
addNewMessageAlwaysSplices(s, msg, type) ==
    IF type = "Existing" THEN addToHistory(s, msg)
    ELSE addNewToLastBlock(s, msg, type)

addNewMessage(s, msg, type) ==
    IF type = "Existing" THEN addToHistory(s, msg)
    ELSE IF ~s.loadedAtBottom \/ s.migrateTo
    THEN With(addToHistory(s, msg), LAMBDA c :
         IF c.item # NoItem
         THEN With(setLastMessage(c.s, c.item), LAMBDA s1 :
                  [s |-> IF type = "Unread" THEN newItemAdded(s1, c.item) ELSE s1,
                   item |-> c.item])
         ELSE c)
    ELSE addNewToLastBlock(s, msg, type)

addNewService(s, date, flagUnread, unreadFlag) ==
    With(LocalItemCreate(s, "service", date, flagUnread), LAMBDA g :
        [s |-> addNewItem(g.s, g.item, unreadFlag), item |-> g.item])

RECURSIVE AddItemsToBlock(_, _)
AddItemsToBlock(s, added) ==
    IF added = << >> THEN s
    ELSE With(addItemToBlock(s, Head(added)), LAMBDA s1 :
         With(Tail(added), LAMBDA rest : AddItemsToBlock(s1, rest)))

\* A variant of checkLastMessage that leaves the bottom flag as it finds it.
checkLastMessageKeepsFlag(s) ==
    IF lastMessageOf(s) # NoItem THEN s
    ELSE IF s.loadedAtBottom THEN setLastMessage(s, lastAvailableMessage(s))
    ELSE s

checkLastMessage(s) ==
    IF lastMessageOf(s) # NoItem
    THEN IF ~s.loadedAtBottom /\ HasMainView(s, lastMessageOf(s))
         THEN With([s EXCEPT !.loadedAtBottom = TRUE], LAMBDA s1 :
                  checkAddAllToUnreadMentions(s1))
         ELSE s
    ELSE IF s.loadedAtBottom THEN setLastMessage(s, lastAvailableMessage(s))
    ELSE s

\* A variant of addOlderSlice whose empty page does not mark the top as loaded.
addOlderSliceTopUnset(s, slice) ==
    IF slice = << >>
    THEN checkJoinedMessage(s, FALSE)
    ELSE With(createItems(s, slice), LAMBDA c :
         With(IF c.added # << >>
              THEN With(startBuildingFrontBlock(c.s, Len(c.added)), LAMBDA a :
                   With(AddItemsToBlock(a, c.added), LAMBDA b :
                   With(finishBuildingFrontBlock(b), LAMBDA d :
                       IF d.loadedAtBottom THEN addItemsToLists(d, c.added) ELSE d)))
              ELSE [c.s EXCEPT !.loadedAtTop = TRUE],
              LAMBDA s1 :
         With(checkJoinedMessage(s1, FALSE), LAMBDA s2 : checkLastMessage(s2))))

addOlderSlice(s, slice) ==
    IF slice = << >>
    THEN With([s EXCEPT !.loadedAtTop = TRUE], LAMBDA s1 : checkJoinedMessage(s1, FALSE))
    ELSE With(createItems(s, slice), LAMBDA c :
         With(IF c.added # << >>
              THEN With(startBuildingFrontBlock(c.s, Len(c.added)), LAMBDA a :
                   With(AddItemsToBlock(a, c.added), LAMBDA b :
                   With(finishBuildingFrontBlock(b), LAMBDA d :
                       IF d.loadedAtBottom THEN addItemsToLists(d, c.added) ELSE d)))
              ELSE [c.s EXCEPT !.loadedAtTop = TRUE],
              LAMBDA s1 :
         With(checkJoinedMessage(s1, FALSE), LAMBDA s2 : checkLastMessage(s2))))

addNewerSlice(s, slice) ==
    With(IF slice = << >>
         THEN With([s EXCEPT !.loadedAtBottom = TRUE], LAMBDA a :
                  IF lastMessageOf(a) = NoItem
                  THEN setLastMessage(a, lastAvailableMessage(a))
                  ELSE a)
         ELSE s,
         LAMBDA s1 :
    With(createItems(s1, slice), LAMBDA c :
    With(IF c.added # << >>
         THEN IF isBuildingFrontBlock(c.s) THEN Fail(c.s, "addNewerSlice")
              ELSE AddItemsToBlock(c.s, c.added)
         ELSE With([c.s EXCEPT !.loadedAtBottom = TRUE], LAMBDA a :
                  setLastMessage(a, lastAvailableMessage(a))),
         LAMBDA s2 :
    With(IF ~s.loadedAtBottom THEN checkAddAllToUnreadMentions(s2) ELSE s2,
         LAMBDA s2a :
    With(checkJoinedMessage(s2a, FALSE), LAMBDA s3 : checkLastMessage(s3))))))

\* ------------------------------------------------- dialog entry, round trips
\* The first message of the response whose id differs, as a sequence of 0 or 1.
RECURSIVE FirstOtherMessage(_, _)
FirstOtherMessage(data, id) ==
    IF data = << >> THEN << >>
    ELSE IF Head(data).id # id THEN << Head(data) >>
    ELSE FirstOtherMessage(Tail(data), id)

\* The gsl::finally of setFakeChatListMessageFrom.
FinalizeFakeChatListMessage(s) ==
    IF ~chatListMessageKnown(s) THEN setChatListMessage(s, lastMessageOf(s)) ELSE s

\* A variant of setFakeChatListMessageFrom without the final fallback to
\* lastMessage.
setFakeChatListMessageFromNoFallback(s, data) ==
    IF ~lastMessageKnown(s) THEN requestChatListMessage(s)
    ELSE IF lastMessageOf(s) = NoItem \/ ~isGroupMigrate(lastMessageOf(s))
    THEN s
    ELSE With(FirstOtherMessage(data, lastMessageOf(s).id), LAMBDA other :
         IF other = << >> THEN s
         ELSE With(addNewMessage(s, other[1], "Existing"), LAMBDA c :
              IF c.item = NoItem \/ isGroupMigrate(c.item)
              THEN c.s
              ELSE setChatListMessage(c.s, c.item)))

\* data: the messages of the response, << >> for messagesNotModified.
setFakeChatListMessageFrom(s, data) ==
    IF ~lastMessageKnown(s) THEN requestChatListMessage(s)
    ELSE IF lastMessageOf(s) = NoItem \/ ~isGroupMigrate(lastMessageOf(s))
    THEN FinalizeFakeChatListMessage(s)
    ELSE With(FirstOtherMessage(data, lastMessageOf(s).id), LAMBDA other :
         IF other = << >> THEN FinalizeFakeChatListMessage(s)
         ELSE With(addNewMessage(s, other[1], "Existing"), LAMBDA c :
              IF c.item = NoItem \/ isGroupMigrate(c.item)
              THEN FinalizeFakeChatListMessage(c.s)
              ELSE With(setChatListMessage(c.s, c.item), LAMBDA s1 :
                       FinalizeFakeChatListMessage(s1))))

\* A variant of historiesUnreadCount that adds the mark to the count.
historiesUnreadCountAddsMark(s) == unreadCountOf(s) + (IF s.unreadMark THEN 1 ELSE 0)

historiesUnreadCount(s) ==
    With(unreadCountOf(s), LAMBDA result :
        IF result = 0 /\ s.unreadMark THEN 1 ELSE result)

\* Only in a support session, for the window of a deleted account.
clearUnreadOnClientSide(s) ==
    session.supportMode /\ peer.kind = "user" /\ peer.deleted

\* True only for the service-notifications conversation, which is none of the
\* conversations considered here.
skipUnreadUpdateForClientSideUnread(s) == FALSE

skipUnreadUpdate(s) ==
    skipUnreadUpdateForClientSideUnread(s) \/ clearUnreadOnClientSide(s)

\* A variant of setUnreadMark that reports the change of the mark whatever
\* the unread count.
setUnreadMarkAlwaysReports(s, mark) ==
    With(IF clearUnreadOnClientSide(s) THEN FALSE ELSE mark, LAMBDA value :
        IF s.unreadMark = value THEN s
        ELSE With([s EXCEPT !.unreadMark = value], LAMBDA s1 :
             IF s1.inChatList
             THEN With(IF value THEN 1 ELSE -1, LAMBDA delta :
                      unreadEntriesChanged(unreadIncrement(s1, delta), delta))
             ELSE s1))

setUnreadMark(s, mark) ==
    With(IF clearUnreadOnClientSide(s) THEN FALSE ELSE mark, LAMBDA value :
        IF s.unreadMark = value THEN s
        ELSE With([s EXCEPT !.unreadMark = value], LAMBDA s1 :
             IF unreadCountOf(s1) = 0 /\ s1.inChatList
             THEN With(IF value THEN 1 ELSE -1, LAMBDA delta :
                      unreadEntriesChanged(unreadIncrement(s1, delta), delta))
             ELSE s1))

\* The chat list took the window in (added) or dropped it, and tells it so.
changedInChatListHook(s0, added) ==
    With([s0 EXCEPT !.inChatList = added], LAMBDA s :
    With(historiesUnreadCount(s) * (IF added THEN 1 ELSE -1), LAMBDA delta :
        IF delta # 0
        THEN unreadEntriesChanged(unreadIncrement(s, delta), IF added THEN 1 ELSE -1)
        ELSE s))

applyDialogFields(s, count, maxInboxRead, maxOutboxRead) ==
    With(IF ~skipUnreadUpdate(s)
         THEN With(setUnreadCount(s, count), LAMBDA s1 :
                  setInboxReadTill(s1, maxInboxRead))
         ELSE s,
         LAMBDA s2 : setOutboxReadTill(s2, maxOutboxRead))

applyDialogTopMessage(s, topMessageId) ==
    With(IF topMessageId # 0 THEN setLastMessage(s, histItemById(s, topMessageId))
         ELSE setLastMessage(s, NoItem),
         LAMBDA s1 :
             IF clearUnreadOnClientSide(s1)
             THEN With(setUnreadCount(s1, 0), LAMBDA s2 :
                      IF lastMessageOf(s2) # NoItem
                      THEN setInboxReadTill(s2, lastMessageOf(s2).id)
                      ELSE s2)
             ELSE s1)

dialogEntryApplied(s) ==
    With(IF ~lastMessageKnown(s) THEN setLastMessage(s, NoItem) ELSE s, LAMBDA s1 :
        IF s1.migrateTo THEN s1
        ELSE IF ~chatListMessageKnown(s1) THEN requestChatListMessage(s1)
        ELSE IF chatListMessageOf(s1) = NoItem
        THEN IF peer.kind = "chat" THEN s1
             ELSE IF isChannel
             THEN IF peer.invited /\ peer.amIn
                  THEN With(unloadBlocks(s1), LAMBDA a :
                       With(addNewerSlice(a, << >>), LAMBDA b :
                           insertJoinedMessage(b, TRUE).s))
                  ELSE s1
             ELSE clearBlocks(s1, FALSE)
        ELSE IF s1.chatListTimeId # 0 /\ s1.loadedAtBottom /\ isChannel /\ peer.invited
                /\ s1.chatListTimeId <= peer.inviteDate /\ peer.amIn
        THEN insertJoinedMessage(s1, TRUE).s
        ELSE s1)

\* ApiWrap::historyDialogEntryApplied: the window's handler, then the callbacks
\* that were waiting for the dialog entry.
historyDialogEntryApplied(s) ==
    With(dialogEntryApplied(s), LAMBDA s1 :
    With([s1 EXCEPT !.requests.dialogEntry = "none"], LAMBDA s2 :
        IF s1.requests.dialogEntry = "callback" THEN requestChatListMessage(s2)
        ELSE s2))

applyDialog(s, count, maxInboxRead, maxOutboxRead, topMessageId, mark, mentions) ==
    With(applyDialogFields(s, count, maxInboxRead, maxOutboxRead), LAMBDA s1 :
    With(applyDialogTopMessage(s1, topMessageId), LAMBDA s2 :
    With(setUnreadMark(s2, mark), LAMBDA s3 :
    With(setUnreadMentionsCount(s3, mentions), LAMBDA s4 :
        historyDialogEntryApplied(s4)))))

\* ------------------------------------------------------------------ drafts
\* The draft slots as one record; << >> is a null pointer.
Drafts ==
    [localDraft |-> localDraft, cloudDraft |-> cloudDraft,
     localObject |-> localDraftObject,
     lastSentDraftText |-> lastSentDraftText,
     lastSentDraftTime |-> lastSentDraftTime]

\* std::make_unique<Data::Draft>: an object other than the one d holds.
NewDraftObject(d) ==
    IF d.localObject = 0 THEN 1 ELSE (d.localObject % MaxDraftObjects) + 1

\* Data::draftIsNull: no draft object, or one with no text and no reply target.
draftIsNull(draft) == draft = << >> \/ (draft[1].text = "" /\ draft[1].msgId = 0)

setLocalDraft(d, draft) ==
    [d EXCEPT !.localDraft = draft,
              !.localObject = IF draft = << >> THEN 0 ELSE NewDraftObject(d)]

clearLocalDraft(d) == [d EXCEPT !.localDraft = << >>, !.localObject = 0]

setCloudDraft(d, draft) == [d EXCEPT !.cloudDraft = draft]

clearCloudDraft(d) == [d EXCEPT !.cloudDraft = << >>]

\* A variant of createLocalDraftFromCloud that keeps the local draft's date.
createLocalDraftFromCloudKeepsDate(d) ==
    IF d.cloudDraft = << >> THEN clearLocalDraft(d)
    ELSE IF draftIsNull(d.cloudDraft) \/ d.cloudDraft[1].date = 0 THEN d
    ELSE IF \/ draftIsNull(d.localDraft)
            \/ d.localDraft[1].date = 0
            \/ d.cloudDraft[1].date >= d.localDraft[1].date
    THEN IF d.localDraft = << >>
         THEN setLocalDraft(d, d.cloudDraft)
         ELSE [d EXCEPT !.localDraft =
                  << [d.cloudDraft[1] EXCEPT !.date = d.localDraft[1].date] >>]
    ELSE d

\* A variant of createLocalDraftFromCloud that always makes a new Draft object.
createLocalDraftFromCloudReplaces(d) ==
    IF d.cloudDraft = << >> THEN clearLocalDraft(d)
    ELSE IF draftIsNull(d.cloudDraft) \/ d.cloudDraft[1].date = 0 THEN d
    ELSE IF \/ draftIsNull(d.localDraft)
            \/ d.localDraft[1].date = 0
            \/ d.cloudDraft[1].date >= d.localDraft[1].date
    THEN setLocalDraft(d, d.cloudDraft)
    ELSE d

createLocalDraftFromCloud(d) ==
    IF d.cloudDraft = << >> THEN clearLocalDraft(d)
    ELSE IF draftIsNull(d.cloudDraft) \/ d.cloudDraft[1].date = 0 THEN d
    ELSE IF \/ draftIsNull(d.localDraft)
            \/ d.localDraft[1].date = 0
            \/ d.cloudDraft[1].date >= d.localDraft[1].date
    THEN With(IF d.localDraft = << >>
              THEN setLocalDraft(d, << [d.cloudDraft[1] EXCEPT !.date = 0] >>)
              ELSE [d EXCEPT !.localDraft[1].text = d.cloudDraft[1].text,
                             !.localDraft[1].msgId = d.cloudDraft[1].msgId,
                             !.localDraft[1].cursor = d.cloudDraft[1].cursor,
                             !.localDraft[1].previewCancelled =
                                 d.cloudDraft[1].previewCancelled],
              LAMBDA e : [e EXCEPT !.localDraft[1].date = d.cloudDraft[1].date])
    ELSE d

applyCloudDraft(d) ==
    IF session.supportMode THEN d ELSE createLocalDraftFromCloud(d)

draftStringIsEmpty(text) == text = ""

\* A variant of skipCloudDraft whose debounce window ends one second earlier.
skipCloudDraftEarlier(d, text, replyTo, date) ==
    IF /\ draftStringIsEmpty(text)
       /\ replyTo = 0
       /\ date > 0
       /\ date < d.lastSentDraftTime + kSkipCloudDraftsFor
    THEN TRUE
    ELSE IF d.lastSentDraftText # << >> /\ d.lastSentDraftText[1] = text
    THEN TRUE
    ELSE FALSE

skipCloudDraft(d, text, replyTo, date) ==
    IF /\ draftStringIsEmpty(text)
       /\ replyTo = 0
       /\ date > 0
       /\ date <= d.lastSentDraftTime + kSkipCloudDraftsFor
    THEN TRUE
    ELSE IF d.lastSentDraftText # << >> /\ d.lastSentDraftText[1] = text
    THEN TRUE
    ELSE FALSE

setSentDraftText(d, text) == [d EXCEPT !.lastSentDraftText = << text >>]

clearSentDraftText(d, text) ==
    With(IF d.lastSentDraftText # << >> /\ d.lastSentDraftText[1] = text
         THEN [d EXCEPT !.lastSentDraftText = << >>]
         ELSE d,
         LAMBDA e : [e EXCEPT !.lastSentDraftTime = Max(@, unixtime)])

setNotLoadedAtBottom(s) == [s EXCEPT !.loadedAtBottom = FALSE]

\* ------------------------------------------------------ the remote store
\* Which server ids are outbound messages of the local user.
OutSets == {{}, {2}}

\* Which message ids are unread mentions of the local user.
MentionSets == {{}, {1}, {1, 2}}

UserPeers ==
    { [kind |-> "user", amIn |-> TRUE, migrateFrom |-> FALSE, invited |-> FALSE, inviteDate |-> 0,
       outIds |-> o, migrateId |-> 0, createId |-> 0, groupedId |-> g, deleted |-> del,
       mentionIds |-> {}] :
        o \in OutSets, g \in {0, 1}, del \in BOOLEAN }

ChatPeers ==
    { [kind |-> "chat", amIn |-> TRUE, migrateFrom |-> FALSE, invited |-> FALSE, inviteDate |-> 0,
       outIds |-> o, migrateId |-> m, createId |-> c, groupedId |-> 0, deleted |-> FALSE,
       mentionIds |-> mn] :
        o \in OutSets, m \in {0, 2}, c \in {0, 1}, mn \in MentionSets }

MegagroupPeers ==
    { [kind |-> "megagroup", amIn |-> a, migrateFrom |-> f, invited |-> d # 0,
       inviteDate |-> d, outIds |-> o, migrateId |-> IF f THEN 1 ELSE 0,
       createId |-> 0, groupedId |-> 0, deleted |-> FALSE, mentionIds |-> mn] :
        a \in BOOLEAN, o \in OutSets, f \in BOOLEAN, d \in 0..MaxMsgId,
        mn \in MentionSets }

Peers == UserPeers \cup ChatPeers \cup MegagroupPeers

KindOf(id) ==
    IF id = 0 THEN "text"
    ELSE IF id = peer.migrateId THEN "migrate"
    ELSE IF id = peer.createId THEN "create"
    ELSE IF id = peer.groupedId THEN "grouped"
    ELSE "text"

\* The raw message the remote store holds for an id; id 0 is a message the
\* window cannot identify (IdFromMessage gives 0).
RawMessage(id) ==
    [id |-> id, out |-> (id \in peer.outIds /\ KindOf(id) = "text"), kind |-> KindOf(id),
     markup |-> << >>]

RECURSIVE RawMessages(_)
RawMessages(ids) ==
    IF ids = << >> THEN << >>
    ELSE << RawMessage(Head(ids)) >> \o RawMessages(Tail(ids))

MsgIds == 1..MaxMsgId

\* Every id an item can be made for.
MaxItemId == IF ScenarioLen > MaxMsgId THEN ScenarioLen ELSE MaxMsgId
ItemIds == 1..MaxItemId

\* Pages of a range query: sequences of at most MaxPage ids, 0 included.
Pages == UNION { [1..n -> 0..MaxMsgId] : n \in 0..MaxPage }

\* ------------------------------------------------------------------- Init
\* The window as constructed, holding the views bs of the items its, with
\* `last` as lastMessage and chatListMessage.
InitWith(bs, its, last) ==
    /\ peer \in Peers
    /\ session \in [supportMode : BOOLEAN]
    /\ localDraft = << >>
    /\ cloudDraft = << >>
    /\ localDraftObject = 0
    /\ lastSentDraftText = << >>
    /\ lastSentDraftTime = 0
    /\ unixtime = 0
    /\ migrateTo \in (IF peer.kind = "chat" /\ peer.migrateId # 0
                      THEN BOOLEAN ELSE {FALSE})
    /\ blocks = bs
    /\ items = its
    /\ created = [i \in ItemIds |-> 0]
    /\ nextLocal = 0
    /\ loadedAtTop = FALSE
    /\ loadedAtBottom = TRUE
    /\ lastMessage = last
    /\ chatListMessage = last
    /\ chatListTimeId = 0
    /\ inboxReadBefore = << >>
    /\ outboxReadBefore = << >>
    /\ unreadCount = << >>
    /\ unreadMark = FALSE
    /\ unreadMentions = {}
    /\ unreadMentionsCount = << >>
    /\ firstUnreadView = NoItem
    /\ unreadBarView = NoItem
    /\ scrollTopItem = NoItem
    /\ buildingFrontBlock = << >>
    /\ notifies = << >>
    /\ typing = [u \in Users |-> 0]
    /\ sendActions = [u \in Users |-> NoAction]
    /\ sendActionString = NoString
    /\ now = 1
    /\ joinedMessage = NoItem
    /\ joinedMessageFound = FALSE
    /\ requests = [dialogEntry |-> "none", fake |-> FALSE, sibling |-> FALSE]
    /\ fromChatList = << >>
    /\ lastKeyboardInited = FALSE
    /\ lastKeyboardUsed = FALSE
    /\ lastKeyboardId = 0
    /\ lastKeyboardFrom = 0
    /\ participants = {}
    /\ mgBots = {}
    /\ botStatus = 0
    /\ markupSenders = {}
    /\ inChatList = FALSE
    /\ unreadFull = 0
    /\ unreadEntriesFull = 0
    /\ indexInHistory = [b \in 1..Len(bs) |-> b]
    /\ indexInBlock = [b \in 1..Len(bs) |-> [i \in 1..Len(bs[b]) |-> i]]
    /\ failed = ""
    /\ lastOp = [op |-> "init", arg |-> 0]

Init == InitWith(<< >>, {}, << >>)

\* ------------------------------------------------------------ the actions
RECURSIVE SumCreated(_, _)
SumCreated(c, n) == IF n = 0 THEN 0 ELSE c[n] + SumCreated(c, n - 1)

\* How many server items were destroyed so far: those made and no longer in
\* the item table.
Destroyed(r) ==
    SumCreated(r.created, MaxItemId) - Cardinality({ i \in r.items : i.id > 0 })

WithinBounds(r) ==
    /\ \A i \in ItemIds : r.created[i] <= MaxGen
    /\ Destroyed(r) <= MaxDestroy
    /\ r.nextLocal <= MaxLocal
    /\ Len(r.notifies) <= MaxNotifies
    /\ Known(r.unreadMentionsCount) => ValueOf(r.unreadMentionsCount) <= MaxMentions
    /\ unreadCountOf(r) <= MaxUnread + 1

\* The handler returned state r (or aborted): the window takes it over.
Commit(result, op, arg) ==
    /\ failed = ""
    /\ \E r \in {result} :
         /\ WithinBounds(r)
         /\ lastOp' = [op |-> op, arg |-> arg]
         /\ failed' = r.failed
         /\ UNCHANGED << peer, session, localDraft, cloudDraft, localDraftObject,
                         lastSentDraftText, lastSentDraftTime, unixtime, now >>
         /\ \E n \in {IF r.failed = "" THEN r ELSE State} :
              /\ migrateTo' = n.migrateTo
              /\ blocks' = n.blocks
              /\ items' = n.items
              /\ created' = n.created
              /\ nextLocal' = n.nextLocal
              /\ loadedAtTop' = n.loadedAtTop
              /\ loadedAtBottom' = n.loadedAtBottom
              /\ lastMessage' = n.lastMessage
              /\ chatListMessage' = n.chatListMessage
              /\ chatListTimeId' = n.chatListTimeId
              /\ inboxReadBefore' = n.inboxReadBefore
              /\ outboxReadBefore' = n.outboxReadBefore
              /\ unreadCount' = n.unreadCount
              /\ unreadMark' = n.unreadMark
              /\ unreadMentions' = n.unreadMentions
              /\ unreadMentionsCount' = n.unreadMentionsCount
              /\ firstUnreadView' = n.firstUnreadView
              /\ unreadBarView' = n.unreadBarView
              /\ scrollTopItem' = n.scrollTopItem
              /\ buildingFrontBlock' = n.buildingFrontBlock
              /\ notifies' = n.notifies
              /\ typing' = n.typing
              /\ sendActions' = n.sendActions
              /\ sendActionString' = n.sendActionString
              /\ joinedMessage' = n.joinedMessage
              /\ joinedMessageFound' = n.joinedMessageFound
              /\ requests' = n.requests
              /\ fromChatList' = n.fromChatList
              /\ lastKeyboardInited' = n.lastKeyboardInited
              /\ lastKeyboardUsed' = n.lastKeyboardUsed
              /\ lastKeyboardId' = n.lastKeyboardId
              /\ lastKeyboardFrom' = n.lastKeyboardFrom
              /\ participants' = n.participants
              /\ mgBots' = n.mgBots
              /\ botStatus' = n.botStatus
              /\ markupSenders' = n.markupSenders
              /\ inChatList' = n.inChatList
              /\ unreadFull' = n.unreadFull
              /\ unreadEntriesFull' = n.unreadEntriesFull
              /\ indexInHistory' = n.indexInHistory
              /\ indexInBlock' = n.indexInBlock

AddNewMessageLast ==
    \E id \in MsgIds : Commit(addNewMessage(State, RawMessage(id), "Last").s,
                              "addNewMessageLast", id)

AddNewMessageUnread ==
    \E id \in MsgIds : Commit(addNewMessage(State, RawMessage(id), "Unread").s,
                              "addNewMessageUnread", id)

AddNewMessageExisting ==
    \E id \in MsgIds : Commit(addNewMessage(State, RawMessage(id), "Existing").s,
                              "addNewMessageExisting", id)

\* The id the remote store gives the next message of a conversation followed
\* live: one more than the ids handed out so far.
NextLiveId == 1 + Cardinality({ i \in ItemIds : created[i] > 0 })

AddNextMessageLast ==
    /\ NextLiveId <= ScenarioLen
    /\ \E id \in {NextLiveId} :
         Commit(addNewMessage(State, RawMessage(id), "Last").s, "addNextMessageLast", id)

AddNextMessageUnread ==
    /\ NextLiveId <= ScenarioLen
    /\ \E id \in {NextLiveId} :
         Commit(addNewMessage(State, RawMessage(id), "Unread").s, "addNextMessageUnread", id)

AddNewService ==
    \E d \in 1..MaxMsgId, u \in BOOLEAN :
        Commit(addNewService(State, d, u, u).s, "addNewService", d)

AddOlderSlice ==
    \E ids \in Pages : Commit(addOlderSlice(State, RawMessages(ids)),
                              "addOlderSlice", Len(ids))

AddNewerSlice ==
    \E ids \in Pages : Commit(addNewerSlice(State, RawMessages(ids)),
                              "addNewerSlice", Len(ids))

DestroyItem ==
    \E item \in items : Commit(destroy(State, item), "destroy", item.id)

ClearUpTill ==
    \E id \in MsgIds : Commit(clearUpTill(State, id), "clearUpTill", id)

UnloadBlocks == Commit(unloadBlocks(State), "unloadBlocks", 0)

Clear == Commit(clearBlocks(State, FALSE), "clear", 0)

SetNotLoadedAtBottom == Commit(setNotLoadedAtBottom(State), "setNotLoadedAtBottom", 0)

\* The totals of unread mentions the remote store can report: at most as
\* many as there are messages that mention the user.
MentionCounts == 0..Cardinality(peer.mentionIds)

ApplyDialog ==
    \E count \in 0..MaxUnread, maxIn \in 0..MaxMsgId, maxOut \in {0, MaxMsgId},
       top \in 0..MaxMsgId, mentions \in MentionCounts :
        Commit(applyDialog(State, count, maxIn, maxOut, top, unreadMark, mentions),
               "applyDialog", count)

\* The chat list asks the window for its message.
RequestChatListMessage ==
    Commit(requestChatListMessage(State), "requestChatListMessage", 0)

DialogEntryApplied ==
    /\ requests.dialogEntry # "none"
    /\ Commit(historyDialogEntryApplied(State), "dialogEntryApplied", 0)

InboxRead ==
    \E upTo \in MsgIds : Commit(inboxRead(State, upTo), "inboxRead", upTo)

OutboxRead ==
    \E upTo \in MsgIds : Commit(outboxRead(State, upTo), "outboxRead", upTo)

ReadInbox == Commit(readInbox(State), "readInbox", 0)

ChangeUnreadCount ==
    \E delta \in {-5, -1, 1} :
        Commit(changeUnreadCount(State, delta), "changeUnreadCount", delta)

UnknownMessageDeleted ==
    \E id \in MsgIds :
        Commit(unknownMessageDeleted(State, id), "unknownMessageDeleted", id)

SetFakeChatListMessageFrom ==
    /\ requests.fake
    /\ \E ids \in Pages :
        Commit(setFakeChatListMessageFrom(
                   [State EXCEPT !.requests.fake = FALSE], RawMessages(ids)),
               "setFakeChatListMessageFrom", Len(ids))

\* The legacy sibling window of a supergroup sets its chatListMessage, to an
\* item or to null: its setChatListMessage then has this window compute its
\* own, if that is unknown.
siblingSetChatListMessage(s, item) ==
    With([s EXCEPT !.fromChatList = << item >>, !.requests.sibling = FALSE],
         LAMBDA s1 :
        IF ~chatListMessageKnown(s1) THEN requestChatListMessage(s1) ELSE s1)

SiblingSetChatListMessage ==
    /\ peer.kind = "megagroup" /\ peer.migrateFrom
    /\ \E item \in {SiblingItem, NoItem} :
          /\ fromChatList # << item >>
          /\ Commit(siblingSetChatListMessage(State, item),
                    "siblingSetChatListMessage", item.id)

\* The sibling's chatListMessage becomes unknown (its lastMessage changed, or
\* the item it showed was removed).
SiblingForgetsChatListMessage ==
    /\ peer.kind = "megagroup" /\ peer.migrateFrom
    /\ Known(fromChatList)
    /\ Commit([State EXCEPT !.fromChatList = << >>],
              "siblingForgetsChatListMessage", 0)

\* The legacy sibling window removes the item it showed in the chat list: its
\* own chatListMessage becomes null or unknown, and its itemRemoved then has
\* this window check its chatListMessage.
siblingItemRemoved(s, next) ==
    With(IF s.fromChatList # << SiblingItem >> THEN s
         ELSE IF Known(next) THEN siblingSetChatListMessage(s, ValueOf(next))
         ELSE [s EXCEPT !.fromChatList = << >>],
         LAMBDA s1 : checkChatListMessageRemoved(s1, SiblingItem))

SiblingItemRemoved ==
    /\ peer.kind = "megagroup" /\ peer.migrateFrom
    /\ \E next \in {<< >>, << NoItem >>} :
          Commit(siblingItemRemoved(State, next), "siblingItemRemoved", SiblingItem.id)

\* Who can type: the other side of a private chat, or any member of a group.
ChatUsers == IF isUser THEN {1} ELSE Users

UpdateSendAction ==
    \E user \in ChatUsers, action \in SendMessageActions :
        Commit(updateSendActionNeedsAnimatingFor(State, user, action).s,
               "updateSendAction", user)

\* The periodic sweep; the result is recorded as 1 or 0.
SweepSendActions ==
    \E r \in {updateSendActionNeedsAnimating(State, now, FALSE)} :
        Commit(r.s, "sweepSendActions", IF r.result THEN 1 ELSE 0)

\* Time passes.
Tick ==
    /\ failed = ""
    /\ now + ClockStep <= MaxNow
    /\ now' = now + ClockStep
    /\ lastOp' = [op |-> "tick", arg |-> 0]
    /\ UNCHANGED << peer, session, localDraft, cloudDraft, localDraftObject,
                    lastSentDraftText, lastSentDraftTime, unixtime,
                    migrateTo, blocks, items,
                    created, nextLocal, loadedAtTop, loadedAtBottom, lastMessage,
                    chatListMessage, chatListTimeId, inboxReadBefore,
                    outboxReadBefore, unreadCount, unreadMark, unreadMentions,
                    unreadMentionsCount, firstUnreadView, unreadBarView,
                    scrollTopItem, buildingFrontBlock, notifies, typing,
                    sendActions, sendActionString, joinedMessage,
                    joinedMessageFound, requests, fromChatList, lastKeyboardInited, lastKeyboardUsed,
                    lastKeyboardId, lastKeyboardFrom, participants, mgBots,
                    botStatus, markupSenders, inChatList, unreadFull,
                    unreadEntriesFull, indexInHistory,
                    indexInBlock, failed >>

SetUnreadMentionsCount ==
    \E count \in 0..MaxMentions :
        Commit(setUnreadMentionsCount(State, count), "setUnreadMentionsCount", count)

UnreadMentionTypes == {"New", "Existing"}

\* An item that is an unread mention reports itself, live (New) or found in
\* a page (Existing).  The id is recorded negated when the call returns false.
AddToUnreadMentions ==
    \E item \in items, type \in UnreadMentionTypes :
        /\ IsServerMsgId(item.id) /\ isUnreadMention(item)
        /\ \E r \in {addToUnreadMentions(State, item.id, type)} :
               Commit(r.s, "addToUnreadMentions" \o type,
                      IF r.result THEN item.id ELSE 0 - item.id)

EraseFromUnreadMentions ==
    \E id \in MsgIds :
        Commit(eraseFromUnreadMentions(State, id), "eraseFromUnreadMentions", id)

MentionsResponses == {"messages", "messagesSlice", "messagesNotModified"}

AddUnreadMentionsSlice ==
    \E type \in MentionsResponses, total \in {0, 1, MaxMentions}, ids \in Pages :
        Commit(addUnreadMentionsSlice(State, type, total, RawMessages(ids)),
               "addUnreadMentionsSlice", total)

SetUnreadMark ==
    \E mark \in BOOLEAN :
        Commit(setUnreadMark(State, mark), "setUnreadMark", IF mark THEN 1 ELSE 0)

AddUnreadBar == Commit(addUnreadBar(State), "addUnreadBar", 0)

RefreshView ==
    \E b \in 1..Len(blocks) : \E i \in 1..Len(blocks[b]) :
        /\ blocks[b][i].view < MaxViews
        /\ Commit(HistoryBlockRefreshView(State, b, i), "refreshView",
                  blocks[b][i].id)

CountScrollTopItem ==
    \E b \in 1..Len(blocks) : \E i \in 1..Len(blocks[b]) :
        Commit(countScrollTopItem(State, blocks[b][i]), "countScrollTopItem",
               blocks[b][i].id)

\* A draft handler returned the slots d: the window keeps everything else.
CommitDrafts(d, op, arg) ==
    /\ failed = ""
    /\ localDraft' = d.localDraft
    /\ cloudDraft' = d.cloudDraft
    /\ localDraftObject' = d.localObject
    /\ lastSentDraftText' = d.lastSentDraftText
    /\ lastSentDraftTime' = d.lastSentDraftTime
    /\ lastOp' = [op |-> op, arg |-> arg]
    /\ UNCHANGED << peer, session, migrateTo, blocks, items, created, nextLocal,
                    loadedAtTop, loadedAtBottom, lastMessage, chatListMessage,
                    chatListTimeId, inboxReadBefore, outboxReadBefore, unreadCount,
                    unreadMark, unreadMentions, unreadMentionsCount,
                    firstUnreadView, unreadBarView, scrollTopItem,
                    buildingFrontBlock, notifies, typing, sendActions,
                    sendActionString, now, unixtime, joinedMessage,
                    joinedMessageFound, requests, fromChatList, lastKeyboardInited, lastKeyboardUsed,
                    lastKeyboardId, lastKeyboardFrom, participants, mgBots,
                    botStatus, markupSenders, inChatList, unreadFull,
                    unreadEntriesFull, indexInHistory,
                    indexInBlock, failed >>

\* What a draft object can hold: a text and a date, and either a reply to
\* message 1 with the cursor at 1 and the link preview cancelled, or no reply
\* with the cursor at 0 and the preview kept.
DraftValues ==
    { [text |-> t, msgId |-> k, cursor |-> k, previewCancelled |-> (k = 1),
       date |-> d] : t \in {"", "a", "b"}, k \in {0, 1}, d \in 0..MaxDraftDate }

SetLocalDraft ==
    \E draft \in DraftValues :
        CommitDrafts(setLocalDraft(Drafts, << draft >>), "setLocalDraft", draft.date)

ClearLocalDraft == CommitDrafts(clearLocalDraft(Drafts), "clearLocalDraft", 0)

SetCloudDraft ==
    \E draft \in DraftValues :
        CommitDrafts(setCloudDraft(Drafts, << draft >>), "setCloudDraft", draft.date)

ClearCloudDraft == CommitDrafts(clearCloudDraft(Drafts), "clearCloudDraft", 0)

\* The step records which Draft object the local slot held when it began.
ApplyCloudDraft ==
    CommitDrafts(applyCloudDraft(Drafts), "applyCloudDraft", localDraftObject)

DraftTexts == {"", "a", "b"}

\* The dates a cloud draft can carry: none, and up to past the debounce window.
CloudDraftDates == -1..(MaxUnixtime + kSkipCloudDraftsFor + 1)

SetSentDraftText ==
    \E text \in DraftTexts :
        CommitDrafts(setSentDraftText(Drafts, text), "setSentDraftText", text)

ClearSentDraftText ==
    \E text \in DraftTexts :
        CommitDrafts(clearSentDraftText(Drafts, text), "clearSentDraftText", text)

\* The query changes nothing; the step records its inputs and its answer.
SkipCloudDraft ==
    \E text \in DraftTexts : \E replyTo \in {0, 1} : \E date \in CloudDraftDates :
        CommitDrafts(Drafts, "skipCloudDraft",
                     [text |-> text, replyTo |-> replyTo, date |-> date,
                      result |-> skipCloudDraft(Drafts, text, replyTo, date)])

\* A second passes.
UnixtimeTick ==
    /\ failed = ""
    /\ unixtime < MaxUnixtime
    /\ unixtime' = unixtime + 1
    /\ lastOp' = [op |-> "unixtime", arg |-> 0]
    /\ UNCHANGED << peer, session, localDraft, cloudDraft, localDraftObject,
                    lastSentDraftText, lastSentDraftTime, now,
                    migrateTo, blocks, items,
                    created, nextLocal, loadedAtTop, loadedAtBottom, lastMessage,
                    chatListMessage, chatListTimeId, inboxReadBefore,
                    outboxReadBefore, unreadCount, unreadMark, unreadMentions,
                    unreadMentionsCount, firstUnreadView, unreadBarView,
                    scrollTopItem, buildingFrontBlock, notifies, typing,
                    sendActions, sendActionString, joinedMessage,
                    joinedMessageFound, requests, fromChatList, lastKeyboardInited, lastKeyboardUsed,
                    lastKeyboardId, lastKeyboardFrom, participants, mgBots,
                    botStatus, markupSenders, inChatList, unreadFull,
                    unreadEntriesFull, indexInHistory,
                    indexInBlock, failed >>

\* The descriptors a message can carry: sets of flags.
Markups == SUBSET {"f_selective", "f_zero"}

\* A message with a reply-keyboard descriptor arrives.
AddNewMessageMarkup ==
    \E id \in MsgIds : \E flags \in Markups :
        Commit(addNewMessage(State, [RawMessage(id) EXCEPT !.markup = << flags >>],
                             "Last").s,
               "addNewMessageMarkup", [id |-> id, flags |-> flags])

\* What the member list of a group can be known to be: nothing yet, the local
\* user alone, or with the first or both of the other users.
MemberLists == {{}, {SelfId}, {1, SelfId}, {1, 2, SelfId}}

\* What is known of the bots of a supergroup: nothing yet, that there are
\* none, or the first user.
BotLists == {[bots |-> {}, status |-> 0], [bots |-> {}, status |-> -1],
             [bots |-> {1}, status |-> 2]}

\* The member list of the conversation arrives from the remote store.
SetPeerMembers ==
    \/ /\ isChat
       /\ \E list \in MemberLists :
            Commit([State EXCEPT !.participants = list], "setPeerMembers", list)
    \/ /\ isMegagroup
       /\ \E list \in BotLists :
            Commit([State EXCEPT !.mgBots = list.bots, !.botStatus = list.status],
                   "setPeerMembers", list)

\* addNewInTheMiddle called with a new joined marker and any pair of indices,
\* those out of range included.
MiddleCall(b, pos) ==
    With(GenerateJoinedMessage(State), LAMBDA g :
        [s |-> addNewInTheMiddle(g.s, g.item, b, pos), item |-> g.item])

AddNewInTheMiddle ==
    \E b \in 0..(Len(blocks) + 1) :
        \E pos \in 0..(IF b \in 1..Len(blocks) THEN Len(blocks[b]) + 2 ELSE 1) :
            Commit(MiddleCall(b, pos).s, "addNewInTheMiddle", [b |-> b, pos |-> pos])

\* The remote store reports the unread count.
SetUnreadCount ==
    \E count \in 0..MaxUnread :
        Commit(setUnreadCount(State, count), "setUnreadCount", count)

\* The remote store reports the unread count and the read cursors of a dialog.
ApplyDialogFields ==
    \E count \in 0..MaxUnread, maxIn \in 0..MaxMsgId :
        Commit(applyDialogFields(State, count, maxIn, 0), "applyDialogFields", count)

\* The window enters or leaves the main chat list.
ChangedInChatList ==
    \E added \in BOOLEAN :
        /\ added # inChatList
        /\ Commit(changedInChatListHook(State, added), "changedInChatList",
                  IF added THEN 1 ELSE 0)

Next ==
    \/ ChangedInChatList
    \/ SiblingItemRemoved
    \/ SetUnreadCount
    \/ ApplyDialogFields
    \/ AddNewInTheMiddle
    \/ AddNewMessageMarkup
    \/ SetPeerMembers
    \/ SetLocalDraft
    \/ ClearLocalDraft
    \/ SetCloudDraft
    \/ ClearCloudDraft
    \/ ApplyCloudDraft
    \/ SetSentDraftText
    \/ ClearSentDraftText
    \/ SkipCloudDraft
    \/ UnixtimeTick
    \/ RequestChatListMessage
    \/ RefreshView
    \/ AddUnreadBar
    \/ CountScrollTopItem
    \/ SetUnreadMark
    \/ SiblingSetChatListMessage
    \/ SiblingForgetsChatListMessage
    \/ UpdateSendAction
    \/ SweepSendActions
    \/ Tick
    \/ SetUnreadMentionsCount
    \/ AddToUnreadMentions
    \/ EraseFromUnreadMentions
    \/ AddUnreadMentionsSlice
    \/ AddNewMessageLast
    \/ AddNewMessageUnread
    \/ AddNewMessageExisting
    \/ AddNextMessageLast
    \/ AddNextMessageUnread
    \/ AddNewService
    \/ AddOlderSlice
    \/ AddNewerSlice
    \/ DestroyItem
    \/ ClearUpTill
    \/ UnloadBlocks
    \/ Clear
    \/ SetNotLoadedAtBottom
    \/ ApplyDialog
    \/ DialogEntryApplied
    \/ InboxRead
    \/ OutboxRead
    \/ ReadInbox
    \/ ChangeUnreadCount
    \/ UnknownMessageDeleted
    \/ SetFakeChatListMessageFrom

Spec == Init /\ [][Next]_vars

\* ------------------------------------------------- parts of the behaviour
\* An ordinary session (not a support session), a live account and no
\* message that mentions the user.
OrdinarySession == ~session.supportMode /\ ~peer.deleted /\ peer.mentionIds = {}

\* Conversations by kind, for the specifications that look at one kind.
InitUser == Init /\ OrdinarySession /\ peer.kind = "user"

InitChat == Init /\ OrdinarySession /\ peer.kind = "chat"

InitMegagroup == Init /\ OrdinarySession /\ peer.kind = "megagroup"

\* Pushes only: every behaviour is a sequence of addNewMessage calls.
NextAppend ==
    \/ AddNewMessageLast
    \/ AddNewMessageUnread
    \/ AddNewMessageExisting

InitAppend == Init /\ OrdinarySession

SpecAppend == InitAppend /\ [][NextAppend]_vars

\* A private chat with inbound messages only.
InitPlainUser == InitUser /\ peer.outIds = {} /\ peer.groupedId = 0

\* A supergroup the user was invited to and takes part in.
InitInvited ==
    /\ InitMegagroup
    /\ peer.kind = "megagroup"
    /\ peer.amIn
    /\ peer.invited
    /\ ~peer.migrateFrom
    /\ peer.outIds = {}

\* Loading and unloading the window of a private chat: single messages
\* arrive, the window leaves the bottom and unloads its blocks, items are
\* removed, and older and newer pages are spliced in.
NextWindow ==
    \/ AddNewMessageLast
    \/ AddOlderSlice
    \/ AddNewerSlice
    \/ DestroyItem
    \/ UnloadBlocks
    \/ SetNotLoadedAtBottom

SpecWindow == InitPlainUser /\ [][NextWindow]_vars

\* Growing and shrinking the block sequence, with and without a joined marker.
NextStructure ==
    \/ AddNewMessageLast
    \/ AddOlderSlice
    \/ AddNewerSlice
    \/ DestroyItem

InitStructure == InitPlainUser \/ InitInvited

SpecStructure == InitStructure /\ [][NextStructure]_vars

\* Reading: pushes, read receipts and counter updates, without paging.
NextUnread ==
    \/ AddNewMessageLast
    \/ AddNewMessageUnread
    \/ ApplyDialogFields
    \/ InboxRead
    \/ OutboxRead
    \/ ReadInbox
    \/ ChangeUnreadCount
    \/ UnknownMessageDeleted

\* A private chat without media groups, where message 2 is outbound.
InitUnread == InitUser /\ peer.groupedId = 0 /\ peer.outIds = {2}

SpecUnread == InitUnread /\ [][NextUnread]_vars

\* A conversation followed live: messages arrive in id order and are read.
NextLive ==
    \/ AddNextMessageLast
    \/ AddNextMessageUnread
    \/ AddNewService
    \/ InboxRead
    \/ ReadInbox

\* Private chats and legacy groups without media groups and service events.
InitLive ==
    /\ InitUser \/ InitChat
    /\ peer.groupedId = 0 /\ peer.createId = 0 /\ peer.migrateId = 0

SpecLive == InitLive /\ [][NextLive]_vars

\* A legacy group that was migrated (message 2 is the migration event): the
\* last message moves and the chat-list round trips answer.
InitMigratedChat ==
    /\ InitChat
    /\ peer.kind = "chat"
    /\ peer.migrateId # 0
    /\ peer.outIds = {}

NextChat ==
    \/ AddNewMessageLast
    \/ AddOlderSlice
    \/ DestroyItem
    \/ SetNotLoadedAtBottom
    \/ DialogEntryApplied
    \/ SetFakeChatListMessageFrom

\* Message 1 is an ordinary message.
InitBoundaryChat == InitMigratedChat /\ peer.createId = 0

SpecChat == InitBoundaryChat /\ [][NextChat]_vars

\* The draft slots of one private chat, in an ordinary or a support session.
InitDrafts ==
    /\ Init
    /\ peer.kind = "user" /\ ~peer.deleted /\ peer.outIds = {} /\ peer.groupedId = 0

NextDrafts ==
    \/ SetLocalDraft
    \/ ClearLocalDraft
    \/ SetCloudDraft
    \/ ClearCloudDraft
    \/ ApplyCloudDraft

SpecDrafts == InitDrafts /\ [][NextDrafts]_vars

\* Drafts are sent to the cloud and confirmed while cloud drafts arrive.
NextSentDraft ==
    \/ SetSentDraftText
    \/ ClearSentDraftText
    \/ SkipCloudDraft
    \/ UnixtimeTick

SpecSentDraft == InitDrafts /\ [][NextSentDraft]_vars

\* Pushes into a window that may have left the bottom of the conversation.
NextDetached ==
    \/ AddNewMessageLast
    \/ AddNewMessageUnread
    \/ AddOlderSlice
    \/ SetNotLoadedAtBottom
    \/ InboxRead

SpecDetached == InitUnread /\ [][NextDetached]_vars

\* The anchors of a window that is scrolled, read and unloaded.
NextAnchors ==
    \/ AddNewMessageLast
    \/ AddNewMessageUnread
    \/ AddOlderSlice
    \/ AddUnreadBar
    \/ CountScrollTopItem
    \/ UnloadBlocks

SpecAnchors == InitUnread /\ [][NextAnchors]_vars

\* The anchors of a window whose views are removed and recreated.
NextViews ==
    \/ AddNewMessageLast
    \/ AddNewMessageUnread
    \/ AddUnreadBar
    \/ CountScrollTopItem
    \/ DestroyItem
    \/ RefreshView

SpecViews == InitUnread /\ [][NextViews]_vars

\* The k-th of the messages a long conversation held before it is observed;
\* their ids lie above the ids of the messages that arrive.
OlderItem(k) ==
    [id |-> MaxItemId + k, gen |-> 1, view |-> 1, out |-> FALSE, kind |-> "text",
     date |-> MaxItemId + k, flagUnread |-> FALSE, markup |-> << >>]

\* The blocks after the views of OlderItem(1..n) were added at the tail of an
\* empty window, for n up to kNewBlockEachMessage: one block.
TailGrown(n) == << [k \in 1..n |-> OlderItem(k)] >>

\* A private chat whose window holds a tail block that is full or nearly full.
InitLongTail ==
    /\ \E n \in (kNewBlockEachMessage - 2)..kNewBlockEachMessage :
           InitWith(TailGrown(n), { OlderItem(k) : k \in 1..n },
                    << OlderItem(n) >>)
    /\ OrdinarySession
    /\ peer.kind = "user" /\ peer.groupedId = 0 /\ peer.outIds = {}

NextLongTail ==
    \/ AddNewMessageLast
    \/ AddNewService
    \/ AddNewerSlice
    \/ SetNotLoadedAtBottom

SpecLongTail == InitLongTail /\ [][NextLongTail]_vars

\* Marking a private chat unread by hand, in any session, for a live or a
\* deleted account.
InitMark == Init /\ peer.kind = "user" /\ peer.outIds = {} /\ peer.groupedId = 0

NextMark ==
    \/ SetUnreadMark
    \/ AddNewMessageUnread
    \/ ReadInbox
    \/ ChangeUnreadCount
    \/ SetUnreadCount

SpecMark == InitMark /\ [][NextMark]_vars

\* Mentions in a group: counts from the remote store, pages of mentions,
\* mentions arriving live and mentions looked at.
InitMentions ==
    /\ Init
    /\ ~session.supportMode
    /\ peer.kind = "chat" /\ peer.migrateId = 0 /\ peer.createId = 0
    /\ peer.outIds = {}

NextMentions ==
    \/ SetUnreadMentionsCount
    \/ AddToUnreadMentions
    \/ EraseFromUnreadMentions
    \/ AddUnreadMentionsSlice
    \/ AddNewMessageUnread
    \/ AddNewMessageLast

SpecMentions == InitMentions /\ [][NextMentions]_vars

\* Typing and send actions of three members of a group, or of the other
\* side of a private chat, as time passes.
InitSendActions ==
    /\ Init /\ OrdinarySession
    /\ peer.outIds = {} /\ peer.groupedId = 0
    /\ peer.migrateId = 0 /\ peer.createId = 0
    /\ peer.kind \in {"user", "chat"}

NextSendActions ==
    \/ UpdateSendAction
    \/ SweepSendActions
    \/ Tick

SpecSendActions == InitSendActions /\ [][NextSendActions]_vars

\* Live pushes into a conversation where members type: a group, a supergroup
\* the user is or is not a member of.
InitTypingPush ==
    /\ Init /\ OrdinarySession
    /\ peer.outIds = {} /\ peer.groupedId = 0
    /\ peer.migrateId = 0 /\ peer.createId = 0
    /\ ~peer.invited /\ ~peer.migrateFrom
    /\ peer.kind \in {"chat", "megagroup"}

NextTypingPush ==
    \/ UpdateSendAction
    \/ AddNewMessageUnread

SpecTypingPush == InitTypingPush /\ [][NextTypingPush]_vars

\* A supergroup that came from a legacy group, with the legacy window as
\* its sibling.
InitMigratedMegagroup ==
    /\ InitMegagroup
    /\ peer.migrateFrom /\ ~peer.invited /\ peer.amIn /\ peer.outIds = {}

NextSibling ==
    \/ AddNewMessageLast
    \/ AddOlderSlice
    \/ DestroyItem
    \/ DialogEntryApplied
    \/ SiblingSetChatListMessage
    \/ SiblingForgetsChatListMessage

SpecSibling == InitMigratedMegagroup /\ [][NextSibling]_vars

\* A migrated legacy group or the supergroup it became: the chat list asks
\* for the message to show, items come and go, and the remote store and the
\* sibling window answer every request the window has issued.
InitChatList == InitMigratedChat \/ InitMigratedMegagroup

NextChatList ==
    \/ AddNewMessageLast
    \/ DestroyItem
    \/ SetNotLoadedAtBottom
    \/ RequestChatListMessage
    \/ DialogEntryApplied
    \/ SetFakeChatListMessageFrom
    \/ SiblingSetChatListMessage

SpecChatList ==
    /\ InitChatList
    /\ [][NextChatList]_vars
    /\ WF_vars(DialogEntryApplied)
    /\ WF_vars(SetFakeChatListMessageFrom)
    /\ WF_vars(requests.sibling /\ SiblingSetChatListMessage)

\* ------------------------------------------------------------------ claims
RECURSIVE IdsOf(_)
IdsOf(seq) == IF seq = << >> THEN << >> ELSE << Head(seq).id >> \o IdsOf(Tail(seq))

\* The ids of the views of all blocks, front to back.
LoadedIds(bs) == IdsOf(Flatten(bs))

ServerIdsOf(bs) == SelectSeq(LoadedIds(bs), LAMBDA id : IsServerMsgId(id))

StrictlyAscending(seq) == \A i \in 1..(Len(seq) - 1) : seq[i] < seq[i + 1]

PushOps == {"addNewMessageLast", "addNewMessageUnread", "addNewMessageExisting"}

\* C1 as stated: after any sequence of addNewMessage calls the ids of the items
\* of all blocks, read front to back, are strictly ascending.
C1_AnyOrderAscending == StrictlyAscending(LoadedIds(blocks))

\* C1 amended: addNewMessage appends in arrival order.  A push whose id exceeds
\* every id in the window keeps the confirmed items strictly ascending by id.
C1_AscendingPushesStayAscending ==
    [][ ( /\ lastOp'.op \in PushOps
          /\ failed' = ""
          /\ StrictlyAscending(ServerIdsOf(blocks))
          /\ \A i \in 1..Len(LoadedIds(blocks)) : LoadedIds(blocks)[i] < lastOp'.arg )
        => StrictlyAscending(ServerIdsOf(blocks')) ]_vars

\* Two pushes in ascending order have both been appended.
C1_Witness ==
    /\ lastOp.op \in PushOps
    /\ lastOp.arg = 2
    /\ LoadedIds(blocks) = << 1, 2 >>

NewMessageTypes == {"Last", "Unread", "Existing"}

\* Pushing the raw message of an id twice, in any two ways, from state s: both
\* pushes return the same item and the second makes no new one.
SameItemTwice(s, id) ==
    \A t1 \in NewMessageTypes, t2 \in NewMessageTypes :
        \E a \in {addNewMessage(s, RawMessage(id), t1)} :
            \E b \in {addNewMessage(a.s, RawMessage(id), t2)} :
                (a.s.failed = "" /\ b.s.failed = "")
                    => /\ a.item # NoItem
                       /\ b.item = a.item
                       /\ b.s.items = a.s.items
                       /\ b.s.created = a.s.created

\* C3: ingesting the raw message of one id twice returns the same item both times,
\* the item table holds one item per id, and no item has two views in the blocks.
C3_OneItemOneView ==
    /\ \A id \in MsgIds : \E s \in {State} : SameItemTwice(s, id)
    /\ \A x \in items, y \in items : x.id = y.id => x = y
    /\ \A i \in 1..Len(LoadedIds(blocks)), j \in 1..Len(LoadedIds(blocks)) :
           LoadedIds(blocks)[i] = LoadedIds(blocks)[j] => i = j

\* Message 1 was loaded by a page in front of message 2 and then pushed again:
\* the push found its item and appended nothing.
C3_Witness ==
    /\ lastOp = [op |-> "addNewMessageLast", arg |-> 1]
    /\ LoadedIds(blocks) = << 1, 2 >>
    /\ created[1] = 1

\* The read cursor an update up to id `upTo` leaves, given the stored one.
CursorAfter(cursor, upTo) ==
    IF Known(cursor) /\ upTo + 1 <= ValueOf(cursor) THEN cursor ELSE << upTo + 1 >>

\* C4 as stated: setInboxReadTill and setOutboxReadTill called with a value that
\* is at most the stored cursor leave the cursor as it was.
C4_AtMostStoredIsNoOp ==
    \A upTo \in 0..MaxMsgId :
        /\ (Known(inboxReadBefore) /\ upTo <= ValueOf(inboxReadBefore))
              => setInboxReadTill(State, upTo).inboxReadBefore = inboxReadBefore
        /\ (Known(outboxReadBefore) /\ upTo <= ValueOf(outboxReadBefore))
              => setOutboxReadTill(State, upTo).outboxReadBefore = outboxReadBefore

C4_SetStepsKeep ==
    /\ Known(inboxReadBefore)
          => Known(inboxReadBefore') /\ ValueOf(inboxReadBefore') >= ValueOf(inboxReadBefore)
    /\ Known(outboxReadBefore)
          => Known(outboxReadBefore') /\ ValueOf(outboxReadBefore') >= ValueOf(outboxReadBefore)

C4_SetResult ==
    \A upTo \in 0..(MaxMsgId + 1) :
        /\ setInboxReadTill(State, upTo).inboxReadBefore = CursorAfter(inboxReadBefore, upTo)
        /\ setOutboxReadTill(State, upTo).outboxReadBefore = CursorAfter(outboxReadBefore, upTo)

\* C4 amended: the cursors hold the first unread id, so an update up to id upTo
\* stores upTo + 1 unless the stored cursor is already at least upTo + 1 (an
\* update up to the stored value itself raises the cursor by one); over any
\* sequence of operations a stored cursor never decreases and never becomes
\* unknown again.
C4_CursorsNeverDecrease == [] C4_SetResult /\ [][C4_SetStepsKeep]_vars

\* An inboxRead up to an id below the stored cursor was applied and the cursor
\* stayed above it.
C4_Witness ==
    /\ lastOp.op = "inboxRead"
    /\ Known(inboxReadBefore)
    /\ lastOp.arg + 1 < ValueOf(inboxReadBefore)

C5_ChangeStep ==
    (lastOp'.op = "changeUnreadCount" /\ failed' = "" /\ Known(unreadCount))
        => unreadCount' = << Max(ValueOf(unreadCount) + lastOp'.arg, 0) >>

C5_ChangeResult ==
    \A delta \in {-5, -1, 0, 1} :
        Known(unreadCount)
            => changeUnreadCount(State, delta).unreadCount
                   = << Max(ValueOf(unreadCount) + delta, 0) >>

\* C5: a known unreadCount is never negative in a reachable state, and
\* changeUnreadCount(delta) on a known count c stores max(c + delta, 0).
C5_UnreadCountClamped ==
    /\ [] (Known(unreadCount) => ValueOf(unreadCount) >= 0)
    /\ [] C5_ChangeResult
    /\ [][C5_ChangeStep]_vars

\* changeUnreadCount(-5) was applied to a count of 2 (two unread pushes are
\* still queued for notification) and left 0.
C5_Witness ==
    /\ lastOp = [op |-> "changeUnreadCount", arg |-> -5]
    /\ unreadCount = << 0 >>
    /\ Len(notifies) = 2

\* A build of a front block started from state s: a second start and an
\* addNewItem both abort.
BuildExcludesOthers(s, n) ==
    \E b \in {startBuildingFrontBlock(s, n)} :
        /\ isBuildingFrontBlock(b)
        /\ startBuildingFrontBlock(b, n).failed = "startBuildingFrontBlock"
        /\ \A item \in s.items : addNewItem(b, item, FALSE).failed = "addNewItem"

\* C6: at most one front-block build is in progress: starting one while another
\* is active aborts, addNewItem during a build aborts, and no build is in
\* progress when addOlderSlice or insertJoinedMessage has returned.
C6_OneFrontBlockBuild ==
    /\ buildingFrontBlock = << >>
    /\ failed = "" => \A n \in 1..MaxPage : \E s \in {State} : BuildExcludesOthers(s, n)
    /\ failed = "" => \A u \in BOOLEAN :
           \E r \in {insertJoinedMessage(State, u)} :
               r.s.failed = "" => r.s.buildingFrontBlock = << >>
    /\ failed = "" => \A ids \in Pages :
           \E r \in {addOlderSlice(State, RawMessages(ids))} :
               r.failed = "" => r.buildingFrontBlock = << >>

\* addOlderSlice returned after the joined marker went into a front block
\* built before the older items.
C6_Witness ==
    /\ lastOp.op = "addOlderSlice"
    /\ joinedMessage # NoItem
    /\ Len(Flatten(blocks)) >= 2
    /\ blocks[1][1] = joinedMessage

\* The window of a legacy group holds the migration event and nothing else,
\* the top is not loaded, and the event is the last message.
OnlyMigrationEventLoaded ==
    /\ peer.kind = "chat"
    /\ ~loadedAtTop
    /\ Len(Flatten(blocks)) = 1
    /\ isGroupMigrate(blocks[1][1])
    /\ lastMessage = << blocks[1][1] >>

\* C7 as stated: in such a window chatListMessage is never the migration event.
C7_NeverMigrationEvent ==
    OnlyMigrationEventLoaded => chatListMessage # << blocks[1][1] >>

C7_ProjectionUnknown ==
    OnlyMigrationEventLoaded => computeChatListMessageFromLast(State) = << >>

C7_OnlyResponseResolves ==
    (OnlyMigrationEventLoaded' /\ chatListMessage' = lastMessage'
                               /\ chatListMessage # chatListMessage')
        => lastOp'.op = "setFakeChatListMessageFrom"

\* C7 amended: in such a window the projection computed from lastMessage is
\* unknown, so a round trip is asked for; chatListMessage becomes the migration
\* event only by the response of that round trip, when the response holds no
\* other message.
C7_MigrationEventOnlyByResponse ==
    [] C7_ProjectionUnknown /\ [][C7_OnlyResponseResolves]_vars

\* The migration event was pushed into an empty window: the projection is
\* unknown and the round trip is pending.
C7_Witness ==
    /\ OnlyMigrationEventLoaded
    /\ lastOp.op = "addNewMessageLast"
    /\ ~migrateTo
    /\ chatListMessage = << >>
    /\ requests.fake

\* Messages 1..n pushed one after the other without the unread flag.
RECURSIVE AppendedRead(_, _)
AppendedRead(s, n) ==
    IF n = 0 THEN s
    ELSE With(AppendedRead(s, n - 1), LAMBDA a :
             addNewMessage(a, RawMessage(n), "Last").s)

\* The scenario run from window state s: messages 1..ScenarioLen-1 arrive read,
\* message ScenarioLen arrives unread, then readInbox.
ScenarioHolds(s) ==
    \E s5 \in {AppendedRead(s, ScenarioLen - 1)} :
    \E s6 \in {addNewMessage(s5, RawMessage(ScenarioLen), "Unread").s} :
    \E s7 \in {readInbox(s6)} :
        /\ s7.failed = ""
        /\ unreadCountOf(s5) = 0
        /\ unreadCountOf(s6) = 1
        /\ s7.unreadCount = << 0 >>
        /\ lastMessageOf(s7) # NoItem
        /\ lastMessageOf(s7).id = ScenarioLen
        /\ s7.inboxReadBefore = << ScenarioLen + 1 >>

\* A window loaded at bottom that no message has reached yet.
ScenarioStart ==
    /\ failed = ""
    /\ loadedAtBottom
    /\ NextLiveId = 1
    /\ unreadCountOf(State) = 0
    /\ ~Known(inboxReadBefore)

C8_Scenario == ScenarioStart => \E s \in {State} : ScenarioHolds(s)

C8_ReadInboxFrame ==
    (lastOp'.op = "readInbox" /\ failed' = "")
        => /\ Known(unreadCount) => unreadCount' = << 0 >>
           /\ lastMessage' = lastMessage

C8_ThresholdRaised ==
    (lastOp'.op = "readInbox" /\ failed' = "")
        => /\ Known(inboxReadBefore')
           /\ ValueOf(inboxReadBefore') >= msgIdForRead(State) + 1

C8_ThresholdRaisedIfAnyMessage ==
    (lastOp'.op = "readInbox" /\ failed' = "")
        => IF msgIdForRead(State) # 0
           THEN /\ Known(inboxReadBefore')
                /\ ValueOf(inboxReadBefore') >= msgIdForRead(State) + 1
           ELSE inboxReadBefore' = inboxReadBefore

EmptyOlderPageStep == lastOp' = [op |-> "addOlderSlice", arg |-> 0] /\ failed' = ""

\* The views of the window without the joined marker.
WithoutJoined(bs, marker) == SelectSeq(Flatten(bs), LAMBDA x : x # marker)

\* C9 as stated: addOlderSlice with an empty page sets loadedAtTop and leaves
\* loadedAtBottom, the block sequence and every existing item unchanged.
C9_EmptyOlderPageKeepsBlocks ==
    [][EmptyOlderPageStep
         => /\ loadedAtTop'
            /\ loadedAtBottom' = loadedAtBottom
            /\ blocks' = blocks
            /\ items \subseteq items']_vars

\* C9 amended: addOlderSlice with an empty page sets loadedAtTop and leaves
\* loadedAtBottom and every existing item unchanged; the block sequence stays
\* as it was, except that in a channel the user was invited to, whose joined
\* marker is not in the window yet, the marker may be created and inserted
\* (the other views keep their order).
C9_EmptyOlderPageFrame ==
    [][EmptyOlderPageStep
         => /\ loadedAtTop'
            /\ loadedAtBottom' = loadedAtBottom
            /\ items \subseteq items'
            /\ \/ blocks' = blocks
               \/ /\ isChannel /\ peer.invited /\ peer.amIn
                  /\ joinedMessage = NoItem
                  /\ joinedMessage' # NoItem
                  /\ joinedMessage' \notin items
                  /\ WithoutJoined(blocks', joinedMessage') = Flatten(blocks)]_vars

\* An empty older page reached a private chat's window that holds views.
C9_Witness ==
    /\ lastOp = [op |-> "addOlderSlice", arg |-> 0]
    /\ peer.kind = "user"
    /\ loadedAtTop
    /\ blocks # << >>

EmptyNewerPageStep == lastOp' = [op |-> "addNewerSlice", arg |-> 0] /\ failed' = ""

\* C10: addNewerSlice with an empty page sets loadedAtBottom and changes
\* lastMessage only if it was unknown (or null) before, and then to the newest
\* item available in the window.
C10_EmptyNewerPageKeepsKnownLast ==
    [][EmptyNewerPageStep
         => /\ loadedAtBottom'
            /\ IF lastMessageOf(State) # NoItem
               THEN lastMessage' = lastMessage
               ELSE lastMessage' = << lastAvailableMessage(State') >>]_vars

\* A cloud draft dated later than a non-empty local draft with another text.
NewerCloudDraft ==
    /\ cloudDraft # << >>
    /\ localDraft # << >>
    /\ localDraft[1].text # ""
    /\ localDraft[1].text # cloudDraft[1].text
    /\ localDraft[1].date < cloudDraft[1].date

\* C11 as stated: applying a cloud draft dated T2 over a non-empty local draft
\* dated T1 < T2 with another text makes the local draft's text, reply target,
\* cursor, preview flag and date those of the cloud draft.
C11_NewerCloudDraftOverwrites ==
    [][(lastOp'.op = "applyCloudDraft" /\ NewerCloudDraft)
          => localDraft' = cloudDraft]_vars

\* C11 amended: the overwrite happens outside support sessions and for a cloud
\* draft that is not null (it has text or a reply target); in a support
\* session, or for a cloud draft with no text and no reply target, the local
\* draft stays as it was.
C11_NonNullCloudDraftOverwrites ==
    [][(lastOp'.op = "applyCloudDraft" /\ NewerCloudDraft)
          => /\ cloudDraft' = cloudDraft
             /\ IF ~session.supportMode /\ ~draftIsNull(cloudDraft)
                THEN localDraft' = cloudDraft
                ELSE localDraft' = localDraft]_vars

\* A cloud draft dated MaxDraftDate was applied: the local draft is its copy.
C11_Witness ==
    /\ lastOp.op = "applyCloudDraft"
    /\ ~session.supportMode
    /\ localDraft # << >>
    /\ localDraft = cloudDraft
    /\ localDraft[1].date = MaxDraftDate
    /\ localDraft[1].text = "b"
    /\ localDraft[1].msgId = 1

\* A push of a new or unread message returned, and the window was not loaded at
\* bottom when it was called.
DetachedPushStep ==
    /\ lastOp'.op \in {"addNewMessageLast", "addNewMessageUnread"}
    /\ failed' = ""
    /\ ~loadedAtBottom

\* The item of the pushed id is in the item table and the block sequence and
\* the edge flags, anchors and joined marker are as before.
DetachedPushKeepsStructure ==
    /\ \E x \in items' : x.id = lastOp'.arg
    /\ blocks' = blocks
    /\ loadedAtTop' = loadedAtTop
    /\ loadedAtBottom' = loadedAtBottom
    /\ scrollTopItem' = scrollTopItem
    /\ buildingFrontBlock' = buildingFrontBlock
    /\ joinedMessage' = joinedMessage
    /\ unreadMark' = unreadMark

\* The counters, cursors, unread anchors and notification queue are as before.
DetachedPushKeepsSummary ==
    /\ unreadCount' = unreadCount
    /\ inboxReadBefore' = inboxReadBefore
    /\ outboxReadBefore' = outboxReadBefore
    /\ firstUnreadView' = firstUnreadView
    /\ unreadBarView' = unreadBarView
    /\ notifies' = notifies

TailSplicedStep ==
    /\ lastOp'.op \in {"addNextMessageLast", "addNextMessageUnread"}
    /\ failed' = ""
    /\ loadedAtBottom
    /\ blocks' # << >>
    /\ lastAvailableMessage(State').id = lastOp'.arg
    /\ ~HasMainView(State, lastAvailableMessage(State'))

\* C13 as stated: when a push splices an item into the tail of a window loaded
\* at bottom, lastMessage is that item when the call has returned.
C13_TailIsLastMessage ==
    [][TailSplicedStep => lastMessage' = << lastAvailableMessage(State') >>]_vars

\* C13 amended: lastMessage is that item when the call has returned, unless
\* lastMessage was a client-side item dated later than the pushed item, which
\* setLastMessage keeps.
C13_TailIsLastMessageUnlessLaterLocal ==
    [][TailSplicedStep
          => \/ lastMessage' = << lastAvailableMessage(State') >>
             \/ /\ lastMessage' = lastMessage
                /\ lastMessageOf(State) # NoItem
                /\ ~IsServerMsgId(lastMessageOf(State).id)
                /\ lastMessageOf(State).date > lastAvailableMessage(State').date]_vars

\* The second message was spliced after the first and is the last message.
C13_Witness ==
    /\ lastOp.op \in {"addNextMessageLast", "addNextMessageUnread"}
    /\ lastOp.arg = 2
    /\ loadedAtBottom
    /\ LoadedIds(blocks) = << 1, 2 >>
    /\ lastMessage = << lastAvailableMessage(State) >>

\* What unloading leaves of window state s: no anchors, no blocks, no edge.
Unloaded(s) ==
    /\ s.scrollTopItem = NoItem
    /\ s.firstUnreadView = NoItem
    /\ s.unreadBarView = NoItem
    /\ s.blocks = << >>
    /\ ~s.loadedAtTop
    /\ ~s.loadedAtBottom

\* C14: after unloadBlocks the scroll anchor, the first-unread anchor and the
\* unread-bar anchor are none, the block sequence is empty and both load-edge
\* flags are false, by the one call.
C14_UnloadClearsAnchors ==
    /\ (lastOp.op = "unloadBlocks" /\ failed = "") => \E s \in {State} : Unloaded(s)
    /\ failed = "" => \E s \in {unloadBlocks(State)} : Unloaded(s) /\ s.items = items

\* A window with unread messages that were counted was unloaded.
C14_Witness ==
    /\ lastOp.op = "unloadBlocks"
    /\ items # {}
    /\ unreadCountOf(State) > 0
    /\ \E s \in {State} : Unloaded(s)

\* Window state s in the middle of a front-block build: the build has started
\* and the front block exists.
MidBuild(s) == prepareBlockForAddingItem(startBuildingFrontBlock(s, 1)).s

AnchorResolved(s, n, r) ==
    /\ r.unreadCount = << n >>
    /\ (n = 1 /\ s.loadedAtBottom) => r.firstUnreadView = lastAvailableMessage(s)
    /\ n = 0 => /\ r.firstUnreadView = NoItem
                /\ msgIdForRead(s) # 0
                      => /\ Known(r.inboxReadBefore)
                         /\ ValueOf(r.inboxReadBefore) > msgIdForRead(s)

C16_SetResolves ==
    \A n \in 0..MaxUnread :
        unreadCount # << n >>
            => \E s \in {State} : \E r \in {setUnreadCount(s, n)} : AnchorResolved(s, n, r)

C16_ChangeStep ==
    (lastOp'.op = "changeUnreadCount" /\ failed' = "" /\ unreadCount' # unreadCount)
        => \E s \in {State} : \E r \in {State'} :
               AnchorResolved(s, ValueOf(unreadCount'), r)

\* C16: setUnreadCount(n) with n different from the current count resolves the
\* first-unread anchor: for n = 1 on a window loaded at bottom the anchor is
\* the last loaded item; for n = 0 the anchor is none and the inbound read
\* cursor is raised so that the newest known id counts as read.
C16_SetUnreadCountResolvesAnchor == [] C16_SetResolves /\ [][C16_ChangeStep]_vars

\* The count went from 2 to 1 on a window loaded at bottom: the anchor is the
\* last loaded item.
C16_Witness ==
    /\ lastOp = [op |-> "changeUnreadCount", arg |-> -1]
    /\ unreadCount = << 1 >>
    /\ loadedAtBottom
    /\ blocks # << >>
    /\ firstUnreadView = lastAvailableMessage(State)

C17_Aggregate ==
    historiesUnreadCount(State) =
        IF Known(unreadCount) /\ ValueOf(unreadCount) > 0 THEN ValueOf(unreadCount)
        ELSE IF unreadMark THEN 1
        ELSE 0

C17_MarkStep ==
    (lastOp'.op = "setUnreadMark" /\ failed' = "") => unreadCount' = unreadCount

C17_MarkResult ==
    \A mark \in BOOLEAN : setUnreadMark(State, mark).unreadCount = unreadCount

\* C17: historiesUnreadCount() is unreadCount if that is positive, else 1 if
\* the window is marked unread, else 0, so a mark counts as exactly one entry
\* when the count is zero or unknown; setting or clearing the mark never
\* changes unreadCount.
C17_MarkCountsAsOne ==
    /\ [] C17_Aggregate
    /\ [] C17_MarkResult
    /\ [][C17_MarkStep]_vars

\* A window whose count is known to be zero was marked unread.
C17_Witness ==
    /\ lastOp = [op |-> "setUnreadMark", arg |-> 1]
    /\ unreadMark
    /\ unreadCount = << 0 >>
    /\ historiesUnreadCount(State) = 1

\* The tracked set is not known to be complete: the total is unknown or larger
\* than the set.
Incomplete(s) ==
    ~Known(s.unreadMentionsCount)
        \/ Cardinality(s.unreadMentions) < ValueOf(s.unreadMentionsCount)

C18_Result ==
    \A id \in MsgIds, type \in UnreadMentionTypes :
        \E r \in {addToUnreadMentions(State, id, type)} :
            IF Incomplete(State)
            THEN /\ r.result = (type = "Existing" /\ unreadMentions # {})
                 /\ r.s.unreadMentionsCount = unreadMentionsCount
                 /\ r.s.unreadMentions =
                        IF r.result THEN unreadMentions \cup {id} ELSE unreadMentions
            ELSE /\ r.result = (type = "New")
                 /\ r.s = IF r.result
                          THEN [State EXCEPT
                                   !.unreadMentions = @ \cup {id},
                                   !.unreadMentionsCount = << ValueOf(@) + 1 >>]
                          ELSE State

\* A live mention reported while the set is incomplete changes nothing.
C18_NewStep ==
    (lastOp'.op = "addToUnreadMentionsNew" /\ Incomplete(State))
        => /\ lastOp'.arg < 0
           /\ unreadMentions' = unreadMentions
           /\ unreadMentionsCount' = unreadMentionsCount

\* A mention found in a page, reported while the set is incomplete and not
\* empty, is taken.
C18_ExistingStep ==
    (lastOp'.op = "addToUnreadMentionsExisting" /\ Incomplete(State)
            /\ unreadMentions # {})
        => /\ lastOp'.arg > 0
           /\ unreadMentions' = unreadMentions \cup {lastOp'.arg}
           /\ unreadMentionsCount' = unreadMentionsCount

C19_CountCoversSet ==
    Known(unreadMentionsCount)
        => ValueOf(unreadMentionsCount) >= Cardinality(unreadMentions)

\* A count smaller than the set is replaced by the set's size; no id is lost.
C19_SmallerCount ==
    \A count \in 0..MaxMentions :
        \E r \in {setUnreadMentionsCount(State, count)} :
            /\ r.unreadMentions = unreadMentions
            /\ r.unreadMentionsCount =
                   << Max(count, Cardinality(unreadMentions)) >>

C19_SetStep ==
    lastOp'.op = "setUnreadMentionsCount"
        => /\ unreadMentions' = unreadMentions
           /\ unreadMentionsCount' =
                  << Max(lastOp'.arg, Cardinality(unreadMentions)) >>

\* C19: whenever unreadMentionsCount is known it is at least the number of
\* tracked mention ids, after any sequence of setUnreadMentionsCount,
\* addToUnreadMentions, eraseFromUnreadMentions and addUnreadMentionsSlice; a
\* smaller count received is replaced by the set's size and removes no id.
C19_CountAtLeastTracked ==
    /\ [] C19_CountCoversSet
    /\ [] C19_SmallerCount
    /\ [][C19_SetStep]_vars

\* A total below the size of the tracked set was received.
C19_Witness ==
    /\ lastOp.op = "setUnreadMentionsCount"
    /\ lastOp.arg < Cardinality(unreadMentions)
    /\ unreadMentionsCount = << Cardinality(unreadMentions) >>

\* A live push of the outbound message m, which the cursor already covers.
ReadOutboundPush(m) ==
    /\ lastOp' = [op |-> "addNewMessageUnread", arg |-> m]
    /\ failed' = ""
    /\ RawMessage(m).out
    /\ ~isServerSideUnread(State, RawMessage(m))

C20_PushStep ==
    \A m \in MsgIds :
        ReadOutboundPush(m)
            => /\ Known(outboxReadBefore')
               /\ ValueOf(outboxReadBefore') >= m + 1

C20_PushResult ==
    \A m \in MsgIds :
        (RawMessage(m).out /\ ~isServerSideUnread(State, RawMessage(m)))
            => \E r \in {addNewMessage(State, RawMessage(m), "Unread").s} :
                   /\ Known(r.outboxReadBefore)
                   /\ ValueOf(r.outboxReadBefore) >= m + 1

UnreadInboundPush(m) ==
    /\ lastOp' = [op |-> "addNewMessageUnread", arg |-> m]
    /\ failed' = ""
    /\ \E item \in items' :
          /\ item.id = m /\ ~item.out /\ unread(State', item)
          /\ fromOf(item) # 0 /\ fromOf(item) = authorOf(item)

NoEntryFor(user) == typing'[user] = 0 /\ sendActions'[user] = NoAction

Queued(m) == \E i \in 1..Len(notifies') : notifies'[i].id = m

\* C21 as stated: after a live push of an unread inbound item whose sender is
\* its author, the sender has no typing or send-action entry and the item is
\* in the notification queue.
C21_PushClearsAndQueues ==
    [][\A m \in MsgIds :
          UnreadInboundPush(m)
              => NoEntryFor(fromOf(RawMessage(m))) /\ Queued(m)]_vars

\* C21 (amended): the sender has no typing or send-action entry, and the item
\* is in the notification queue unless the conversation is a channel the
\* user is not a member of.
C21_PushClearsAndQueuesForMembers ==
    [][\A m \in MsgIds :
          UnreadInboundPush(m)
              => /\ NoEntryFor(fromOf(RawMessage(m)))
                 /\ (~isChannel \/ peer.amIn) => Queued(m)
                 /\ (isChannel /\ ~peer.amIn) => notifies' = notifies]_vars

\* Message 1 was pushed while its sender and another member had entries: the
\* other member's is the one left.
C21_Witness ==
    /\ lastOp = [op |-> "addNewMessageUnread", arg |-> 1]
    /\ \E i \in 1..Len(notifies) : notifies[i].id = 1
    /\ typing[1] = 0 /\ sendActions[1] = NoAction
    /\ typing[2] # 0
    /\ sendActionString = [NoString EXCEPT !.form = "lng_user_typing", !.user = 2]

\* What a sweep at time t leaves of the entries of s, and what it returns.
Swept(s, t, r) ==
    /\ \A u \in Users :
          /\ r.s.typing[u] = IF s.typing[u] > t THEN s.typing[u] ELSE 0
          /\ r.s.sendActions[u] =
                 IF s.sendActions[u].until > t THEN s.sendActions[u] ELSE NoAction
    /\ r.result = (\E u \in Users : s.typing[u] > t \/ s.sendActions[u].until > t)

\* The phrase of the status text goes by the number of users typing; other
\* actions are named only when nobody types.
FormByTypingCount(s) ==
    \E n \in {Cardinality(TypingUsers(s))} :
        /\ n > 2 => s.sendActionString.form = "lng_many_typing"
                        /\ s.sendActionString.count = n
        /\ n = 2 => s.sendActionString.form = "lng_users_typing"
        /\ n = 1 => s.sendActionString.form
                        = (IF isUser THEN "lng_typing" ELSE "lng_user_typing")
        /\ n = 0 => s.sendActionString.form
                        \notin {"lng_many_typing", "lng_users_typing", "lng_user_typing"}
        /\ (n = 0 /\ ActingUsers(s) = {}) => s.sendActionString = NoString

C30_SweepResult ==
    \E r \in {updateSendActionNeedsAnimating(State, now, FALSE)} :
        Swept(State, now, r) /\ FormByTypingCount(r.s)

C30_SweepStep ==
    lastOp'.op = "sweepSendActions"
        => /\ Swept(State, now, [s |-> State', result |-> lastOp'.arg = 1])
           /\ FormByTypingCount(State')

BoundaryIsLast(s) ==
    /\ peer.kind = "megagroup" /\ peer.migrateFrom
    /\ lastMessageOf(s) # NoItem /\ isGroupMigrate(lastMessageOf(s))

\* C22 as stated: in such a window chatListMessage equals the sibling's
\* chatListMessage when that is known and is unknown when that is unknown.
C22_ProjectionIsSiblings ==
    BoundaryIsLast(State) => chatListMessage = fromChatList

C22_ComputedIsSiblings ==
    BoundaryIsLast(State) => computeChatListMessageFromLast(State) = fromChatList

C22_ChangeStep ==
    (BoundaryIsLast(State') /\ chatListMessage' # chatListMessage)
        => chatListMessage' = fromChatList'

C22_KnownIfSiblingKnown ==
    (BoundaryIsLast(State) /\ Known(fromChatList)) => Known(chatListMessage)

\* C22 (amended): in such a window the projection computed from lastMessage
\* is the sibling's chatListMessage, unknown when that is unknown; whenever
\* chatListMessage changes it becomes the sibling's, and it is known whenever
\* the sibling's is.  It is not recomputed when the sibling's changes later.
C22_ProjectionComputedFromSibling ==
    /\ [] C22_ComputedIsSiblings
    /\ [] C22_KnownIfSiblingKnown
    /\ [][C22_ChangeStep]_vars

\* The sibling set its chatListMessage and this window took it over.
C22_Witness ==
    /\ BoundaryIsLast(State)
    /\ lastOp = [op |-> "siblingSetChatListMessage", arg |-> SiblingItem.id]
    /\ fromChatList = << SiblingItem >>
    /\ chatListMessage = << SiblingItem >>

\* A legacy-group window whose lastMessage is the migration-boundary event,
\* the newest item it has.
NewestIsBoundary(s) ==
    /\ peer.kind = "chat"
    /\ lastMessageOf(s) # NoItem /\ isGroupMigrate(lastMessageOf(s))
    /\ isEmpty(s) \/ lastAvailableMessage(s) = lastMessageOf(s)

\* The positions, in the loaded window, of the items that are not the
\* boundary event.
OtherPositions(s) ==
    { i \in 1..Len(Flatten(s.blocks)) : ~isGroupMigrate(Flatten(s.blocks)[i]) }

DraftContentChanged ==
    /\ localDraft # << >>
    /\ localDraft' # << >>
    /\ << localDraft'[1].text, localDraft'[1].msgId, localDraft'[1].cursor >>
           # << localDraft[1].text, localDraft[1].msgId, localDraft[1].cursor >>

\* An existing local draft object is still the one the slot holds.
DraftUpdatedInPlace ==
    (localDraft # << >> /\ localDraft' # << >>)
        => localDraftObject' = localDraftObject

\* C24 as stated: applying a cloud draft changes the local draft's text, reply
\* target or cursor only if the cloud draft's timestamp is at least the local
\* draft's, and an existing local draft object is updated in place.
C24_ChangedOnlyIfNotOlder ==
    [][lastOp'.op = "applyCloudDraft"
          => /\ DraftContentChanged
                    => /\ cloudDraft # << >>
                       /\ cloudDraft[1].date >= localDraft[1].date
             /\ DraftUpdatedInPlace]_vars

\* C24 amended: the content of an existing local draft changes only outside
\* support sessions, for a dated cloud draft with text or a reply target, and
\* only if the cloud draft's timestamp is at least the local draft's or the
\* local draft has neither text nor reply target; the changed draft is then the
\* cloud draft's copy in the same object, a missing local draft is created as
\* a new object, and the local draft is dropped only when there is no cloud
\* draft.
C24_ChangedOnlyIfNotOlderOrLocalNull ==
    [][lastOp'.op = "applyCloudDraft"
          => /\ DraftContentChanged
                    => /\ ~session.supportMode
                       /\ ~draftIsNull(cloudDraft)
                       /\ cloudDraft[1].date # 0
                       /\ \/ cloudDraft[1].date >= localDraft[1].date
                          \/ draftIsNull(localDraft)
                       /\ localDraft' = cloudDraft
             /\ DraftUpdatedInPlace
             /\ (localDraft = << >> /\ localDraft' # << >>)
                    => localDraftObject' # 0 /\ localDraft' = cloudDraft
             /\ (localDraft # << >> /\ localDraft' = << >>)
                    => cloudDraft = << >> /\ ~session.supportMode
                          /\ localDraftObject' = 0
             /\ cloudDraft' = cloudDraft]_vars

\* A cloud draft was applied over the second Draft object the local slot has
\* held: the object is the same and carries the cloud draft's content.
C24_Witness ==
    /\ lastOp = [op |-> "applyCloudDraft", arg |-> MaxDraftObjects]
    /\ localDraftObject = MaxDraftObjects
    /\ ~session.supportMode
    /\ localDraft = cloudDraft
    /\ localDraft # << >>
    /\ localDraft[1].text = "a"
    /\ localDraft[1].cursor = 1
    /\ localDraft[1].date = 1

\* C25: skipCloudDraft(text, replyTo, date) returns true exactly when text is
\* empty, there is no reply target and date is positive and no later than the
\* last-sent time plus the 3-second debounce, or when text equals the recorded
\* last sent draft text.
C25_SkipResult ==
    \A text \in DraftTexts : \A replyTo \in {0, 1} : \A date \in CloudDraftDates :
        skipCloudDraft(Drafts, text, replyTo, date)
            <=> \/ /\ text = ""
                   /\ replyTo = 0
                   /\ date > 0
                   /\ date <= lastSentDraftTime + 3
                \/ lastSentDraftText = << text >>

\* The answer a skipCloudDraft step recorded is the one C25 names.
C25_SkipStep ==
    lastOp'.op = "skipCloudDraft"
        => /\ lastOp'.arg.result
               <=> \/ /\ lastOp'.arg.text = ""
                      /\ lastOp'.arg.replyTo = 0
                      /\ lastOp'.arg.date > 0
                      /\ lastOp'.arg.date <= lastSentDraftTime + 3
                   \/ lastSentDraftText = << lastOp'.arg.text >>
           /\ lastSentDraftText' = lastSentDraftText
           /\ lastSentDraftTime' = lastSentDraftTime

\* clearSentDraftText forgets the recorded text only when it matches, and never
\* lowers the last-sent time: it raises it to the present time.
C25_ClearStep ==
    lastOp'.op = "clearSentDraftText"
        => /\ lastSentDraftText' =
                  (IF lastSentDraftText = << lastOp'.arg >>
                   THEN << >> ELSE lastSentDraftText)
           /\ lastSentDraftTime' >= lastSentDraftTime
           /\ lastSentDraftTime' = Max(lastSentDraftTime, unixtime)

C25_SkipAndClear ==
    /\ [] C25_SkipResult
    /\ [][C25_SkipStep /\ C25_ClearStep]_vars

\* A sent draft was confirmed after the clock advanced, no text is recorded, and
\* an empty cloud draft dated at the end of the debounce window was skipped.
C25_Witness ==
    /\ lastOp.op = "skipCloudDraft"
    /\ lastOp.arg.result
    /\ lastOp.arg.date = lastSentDraftTime + kSkipCloudDraftsFor
    /\ lastSentDraftText = << >>
    /\ lastSentDraftTime = MaxUnixtime

\* A request of the window is waiting for its answer.
RequestInFlight ==
    requests.dialogEntry # "none" \/ requests.fake \/ requests.sibling

\* C26 as stated: if chatListMessage is unknown on a window that has not been
\* migrated away and every request is answered, chatListMessage eventually
\* becomes known.
C26_UnknownLeadsToKnown ==
    (~Known(chatListMessage) /\ ~migrateTo /\ failed = "")
        ~> (Known(chatListMessage) \/ failed # "")

\* Once a request is in flight, chatListMessage becomes known.
C26_RequestLeadsToKnown ==
    (~Known(chatListMessage) /\ ~migrateTo /\ failed = "" /\ RequestInFlight)
        ~> (Known(chatListMessage) \/ failed # "")

\* Requests do not stay in flight forever.
C26_RequestsEnd == []<>(~RequestInFlight)

\* What one answer leaves behind: a dialog entry makes lastMessage known and
\* asks for no other dialog entry; a chat-list round trip answered while
\* lastMessage is known makes chatListMessage known and asks for nothing, and
\* answered while lastMessage is unknown it asks for the dialog entry only.
C26_AnswerStep ==
    /\ (lastOp'.op = "dialogEntryApplied" /\ failed' = "")
           => /\ Known(lastMessage')
              /\ requests'.dialogEntry = "none"
              /\ ~migrateTo => (Known(chatListMessage') \/ RequestInFlight')
    /\ (lastOp'.op = "setFakeChatListMessageFrom" /\ failed' = "")
           => IF Known(lastMessage)
              THEN /\ Known(chatListMessage')
                   /\ requests' = [requests EXCEPT !.fake = FALSE]
              ELSE /\ requests'.dialogEntry = "callback"
                   /\ ~requests'.fake

\* C26 amended: while a request of a window that has not been migrated away
\* is in flight and every request is answered, an unknown chatListMessage
\* eventually becomes known; the chain of requests ends, and each answer asks
\* for at most one further request of another kind.
C26_AnsweredRequestsLeadToKnown ==
    /\ C26_RequestLeadsToKnown
    /\ C26_RequestsEnd
    /\ [][C26_AnswerStep]_vars

\* A chat-list round trip was answered with no other message while lastMessage
\* was the migration event: chatListMessage is that event and nothing is in
\* flight.
C26_Witness ==
    /\ lastOp.op = "setFakeChatListMessageFrom"
    /\ ~migrateTo
    /\ Known(chatListMessage)
    /\ Known(lastMessage)
    /\ chatListMessage = lastMessage
    /\ lastMessage # << NoItem >>
    /\ isGroupMigrate(ValueOf(lastMessage))
    /\ ~RequestInFlight

\* The views the window's blocks hold.
ViewsInBlocks == { Flatten(blocks)[k] : k \in 1..Len(Flatten(blocks)) }

\* Each anchor is none or a view of the blocks.
AnchorsPresent ==
    \A anchor \in {scrollTopItem, firstUnreadView, unreadBarView} :
        anchor = NoItem \/ anchor \in ViewsInBlocks

\* C27: after any item-view removal or view replacement, the scroll anchor, the
\* first-unread anchor and the unread-bar anchor are each either none or a view
\* currently present in the window's blocks; none of them refers to the removed
\* or replaced view.
C27_AnchorsAfterRemoval ==
    /\ [](lastOp.op \in {"destroy", "refreshView"} => AnchorsPresent)
    /\ [][(lastOp'.op \in {"destroy", "refreshView"} /\ failed' = "")
             => \A view \in ViewsInBlocks \ ViewsInBlocks' :
                    /\ scrollTopItem' # view
                    /\ firstUnreadView' # view
                    /\ unreadBarView' # view]_vars

\* The view that held all three anchors was recreated: the anchors refer to the
\* item's new view, which is in the blocks.
C27_Witness ==
    /\ lastOp.op = "refreshView"
    /\ scrollTopItem # NoItem
    /\ scrollTopItem.id = lastOp.arg
    /\ scrollTopItem.view = MaxViews
    /\ firstUnreadView = scrollTopItem
    /\ unreadBarView = scrollTopItem
    /\ scrollTopItem \in ViewsInBlocks
    /\ Len(Flatten(blocks)) = 2

\* The handlers that grow the window at its tail.
TailGrowthOps == {"addNewMessageLast", "addNewService", "addNewerSlice"}

\* The step took no view out of its place: the views of before are the first
\* views of after, in the same order.
ViewsKept ==
    /\ Len(Flatten(blocks')) >= Len(Flatten(blocks))
    /\ SubSeq(Flatten(blocks'), 1, Len(Flatten(blocks))) = Flatten(blocks)

\* A tail growth step from a window whose last block holds 50 items leaves
\* every block as it was and puts what it adds into new blocks.
C28_FullBlockStep ==
    (/\ lastOp'.op \in TailGrowthOps
     /\ failed' = ""
     /\ blocks # << >>
     /\ Len(blocks[Len(blocks)]) >= 50
     /\ ViewsKept)
        => /\ Len(blocks') >= Len(blocks)
           /\ \A b \in 1..Len(blocks) : blocks'[b] = blocks[b]
           /\ Flatten(blocks') # Flatten(blocks) => Len(blocks') > Len(blocks)

\* C28: a tail append or newer-page splice never adds an item to a last block
\* that already holds 50 items: it allocates a new last block instead, so a
\* block grown only by tail growth never exceeds 50 items.
C28_TailBlocksAtMostFifty ==
    /\ [](\A b \in 1..Len(blocks) : Len(blocks[b]) <= 50)
    /\ [][C28_FullBlockStep]_vars

\* A message arrived at a window whose last block held 50 items: it is the
\* first item of a new last block.
C28_Witness ==
    /\ lastOp.op \in TailGrowthOps
    /\ Len(blocks) = 2
    /\ Len(blocks[1]) = 50
    /\ blocks[1][50] = OlderItem(50)
    /\ blocks[2] # << >>
    /\ blocks[2][1].id = lastOp.arg
    /\ lastMessage = << blocks[2][Len(blocks[2])] >>

\* ------------------------------------------------------------------- C29
\* Messages with and without reply keyboards arrive in a private chat, a group
\* or a supergroup whose member list changes.
NextKeyboard ==
    \/ AddNewMessageLast
    \/ AddNewMessageMarkup
    \/ SetPeerMembers

InitKeyboard ==
    /\ Init
    /\ ~session.supportMode
    /\ ~peer.deleted
    /\ peer.outIds = {}
    /\ peer.mentionIds \in {{}, {1}}
    /\ peer.migrateId = 0
    /\ peer.createId = 0
    /\ peer.groupedId = 0
    /\ ~peer.invited
    /\ ~migrateTo

SpecKeyboard == InitKeyboard /\ [][NextKeyboard]_vars

TailAppendOps == {"addNewMessageLast", "addNewMessageMarkup"}

\* The step appended a view at the tail of the window.
TailAppended ==
    /\ lastOp'.op \in TailAppendOps
    /\ failed' = ""
    /\ blocks' # << >>
    /\ Len(Flatten(blocks')) = Len(Flatten(blocks)) + 1
    /\ SubSeq(Flatten(blocks'), 1, Len(Flatten(blocks))) = Flatten(blocks)

\* The item a tail append has just appended.
AppendedItem == blocks'[Len(blocks')][Len(blocks'[Len(blocks')])]

KeyboardCleared == lastKeyboardId' = 0 /\ lastKeyboardFrom' = 0

KeyboardSetTo(item) ==
    lastKeyboardId' = item.id /\ lastKeyboardFrom' = fromIdOf(item)

KeyboardUnchanged ==
    UNCHANGED << lastKeyboardId, lastKeyboardFrom, lastKeyboardInited >>

\* The author is known to be absent from the member list, by the lists as they
\* were before the step: a bot that writes in a supergroup is taken for one of
\* its bots.
KnownAbsent(user) ==
    IF isChat
    THEN (participants # {} \/ ~peer.amIn) /\ user \notin participants
    ELSE IF isMegagroup
    THEN (botStatus # 0 \/ ~peer.amIn) /\ user \notin mgBots /\ ~isBot(user)
    ELSE FALSE

SelectiveNotForMe(item) ==
    "f_selective" \in item.markup[1] /\ item.id \notin peer.mentionIds

\* C29 as stated: a tail-appended item with a reply-keyboard descriptor becomes
\* the tracked keyboard (id, author), unless the descriptor is selective and
\* does not mention the local user or the author is known to be absent from
\* the member list, in which case the tracked keyboard is cleared; a
\* descriptor that is the hide sentinel clears the tracked keyboard.
C29_SetUnlessClearedOrHidden ==
    [][(TailAppended /\ AppendedItem.markup # << >>)
        => IF \/ "f_zero" \in AppendedItem.markup[1]
              \/ SelectiveNotForMe(AppendedItem)
              \/ KnownAbsent(fromIdOf(AppendedItem))
           THEN KeyboardCleared
           ELSE KeyboardSetTo(AppendedItem)]_vars

\* C29, amended: a tail-appended item whose reply-keyboard descriptor is
\* selective and does not mention the local user leaves the tracked keyboard as
\* it was.  Otherwise a hide sentinel clears the tracked keyboard when the
\* item's author is the author of the tracked keyboard, or when the item is
\* inbound in a private chat whose keyboard state was not initialised yet, and
\* leaves it as it was in every other case; a descriptor that is not the hide
\* sentinel clears the tracked keyboard when the author is known to be absent
\* from the member list and makes the item the tracked keyboard (id, author)
\* when not.
C29_SetClearedOrKept ==
    [][(TailAppended /\ AppendedItem.markup # << >>)
        => IF SelectiveNotForMe(AppendedItem) THEN KeyboardUnchanged
           ELSE IF "f_zero" \in AppendedItem.markup[1]
           THEN IF \/ lastKeyboardFrom = fromIdOf(AppendedItem)
                   \/ (~lastKeyboardInited /\ isUser /\ ~AppendedItem.out)
                THEN KeyboardCleared /\ lastKeyboardInited'
                ELSE KeyboardUnchanged
           ELSE IF KnownAbsent(fromIdOf(AppendedItem))
           THEN KeyboardCleared /\ lastKeyboardInited'
           ELSE KeyboardSetTo(AppendedItem) /\ lastKeyboardInited']_vars

\* A keyboard of the second user is tracked in a group, and the first user,
\* who is known to be absent, has just sent a keyboard: the tracked keyboard
\* is cleared.
C29_Witness ==
    /\ lastOp.op = "addNewMessageMarkup"
    /\ lastOp.arg = [id |-> 1, flags |-> {}]
    /\ failed = ""
    /\ isChat
    /\ participants = {SelfId}
    /\ blocks # << >>
    /\ blocks[Len(blocks)][Len(blocks[Len(blocks)])].id = 1
    /\ blocks[Len(blocks)][Len(blocks[Len(blocks)])].markup = << {} >>
    /\ Len(Flatten(blocks)) = 2
    /\ Flatten(blocks)[1].markup = << {} >>
    /\ lastKeyboardInited
    /\ lastKeyboardId = 0
    /\ lastKeyboardFrom = 0

\* ------------------------------------------------------------------- C31
\* A supergroup the user was invited to: messages arrive, older pages are
\* prepended as front blocks, and the joined marker is inserted anywhere.
NextMiddle ==
    \/ AddNewMessageLast
    \/ AddOlderSlice
    \/ AddNewInTheMiddle
    \/ DestroyItem

SpecMiddle == InitInvited /\ [][NextMiddle]_vars

MiddleInBounds(b, pos) ==
    /\ b >= 1
    /\ b <= Len(blocks)
    /\ pos >= 1
    /\ pos <= Len(blocks[b]) + 1

\* The step is a call of addNewInTheMiddle with indices within bounds.
MiddleStep == lastOp'.op = "addNewInTheMiddle" /\ failed = ""

\* The view that follows position (b, pos) in the window after the step, if
\* there is one.
ViewAfter(b, pos) ==
    IF pos + 1 <= Len(blocks'[b]) THEN << blocks'[b][pos + 1] >>
    ELSE IF b + 1 <= Len(blocks') THEN << blocks'[b + 1][1] >>
    ELSE << >>

\* The call fails its precondition exactly when an index is out of bounds, and
\* within bounds it places the item at (b, pos), leaves every other view where
\* it was and renumbers the later views of the block.
MiddlePlaces(b, pos) ==
    IF ~MiddleInBounds(b, pos) THEN failed' = "addNewInTheMiddle"
    ELSE /\ failed' = ""
         /\ Len(blocks') = Len(blocks)
         /\ blocks'[b] = InsertAt(blocks[b], pos, MiddleCall(b, pos).item)
         /\ \A c \in 1..Len(blocks) : c # b => blocks'[c] = blocks[c]
         /\ \A k \in pos..Len(blocks'[b]) : indexInBlock'[b][k] = k
         /\ \A k \in 1..(pos - 1) : indexInBlock'[b][k] = indexInBlock[b][k]

\* C31 as stated: addNewInTheMiddle at (blockIndex, itemIndex) fails its
\* precondition when an index is out of bounds, otherwise places the item at
\* exactly that position, renumbers the cached index of every later item of the
\* block, and sends exactly one neighbour notification, to the item right
\* after the insertion point.
C31_OneCallToNextItem ==
    [][MiddleStep
        => \E b \in {lastOp'.arg.b} : \E pos \in {lastOp'.arg.pos} :
             /\ MiddlePlaces(b, pos)
             /\ MiddleInBounds(b, pos)
                  => /\ ViewAfter(b, pos) # << >>
                     /\ MiddleCall(b, pos).s.viewCalls =
                          << [call |-> "previousInBlocksChanged",
                              view |-> ViewAfter(b, pos)[1]] >>]_vars

\* C31, amended: addNewInTheMiddle at (blockIndex, itemIndex) fails its
\* precondition when an index is out of bounds, otherwise places the item at
\* exactly that position, renumbers the cached index of every later item of the
\* block, and sends exactly one neighbour notification: previousInBlocksChanged
\* to the item right after the insertion point when there is one, and
\* nextInBlocksRemoved to the inserted item itself when it became the last
\* item of the window.
C31_OneCallToNextItemOrSelf ==
    [][MiddleStep
        => \E b \in {lastOp'.arg.b} : \E pos \in {lastOp'.arg.pos} :
             /\ MiddlePlaces(b, pos)
             /\ MiddleInBounds(b, pos)
                  => MiddleCall(b, pos).s.viewCalls =
                       << IF ViewAfter(b, pos) # << >>
                          THEN [call |-> "previousInBlocksChanged",
                                view |-> ViewAfter(b, pos)[1]]
                          ELSE [call |-> "nextInBlocksRemoved",
                                view |-> MiddleCall(b, pos).item] >>]_vars

\* The joined marker was inserted after the last view of a window of two
\* blocks: it is the last view, and the index caches match the positions.
C31_Witness ==
    /\ lastOp.op = "addNewInTheMiddle"
    /\ failed = ""
    /\ Len(blocks) = 2
    /\ lastOp.arg.b = 2
    /\ lastOp.arg.pos = Len(blocks[2])
    /\ Len(blocks[2]) >= 2
    /\ blocks[2][Len(blocks[2])] = joinedMessage
    /\ joinedMessage.kind = "joined"
    /\ indexInBlock[2] = [k \in 1..Len(blocks[2]) |-> k]

\* ------------------------------------------------------------------- C33
\* Every structural operation: tail appends, front blocks of older pages,
\* middle inserts, removals of views and with them of blocks, recreated views.
NextIndices ==
    \/ AddNewMessageLast
    \/ AddOlderSlice
    \/ AddNewInTheMiddle
    \/ DestroyItem
    \/ RefreshView

\* The user joined at the date of the newest message.
InitIndices == InitInvited /\ peer.inviteDate = MaxMsgId

SpecIndices == InitIndices /\ [][NextIndices]_vars

StructuralOps ==
    {"addNewMessageLast", "addOlderSlice", "addNewInTheMiddle", "destroy",
     "refreshView"}

\* C33: after every structural operation (tail append, front-block prepend,
\* middle insert, item removal, block removal, view refresh) each block's
\* cached index equals its position in the block sequence and each view's
\* cached index equals its position inside its block.
C33_CachedIndicesArePositions ==
    (lastOp.op \in StructuralOps /\ failed = "")
        => /\ indexInHistory = [b \in 1..Len(blocks) |-> b]
           /\ indexInBlock = [b \in 1..Len(blocks) |-> [i \in 1..Len(blocks[b]) |-> i]]

\* The joined marker was removed from a window whose blocks held message 1
\* and message 2: two blocks remain, with the cached indices 1 and 2.
C33_Witness ==
    /\ lastOp.op = "destroy"
    /\ lastOp.arg < 0
    /\ failed = ""
    /\ nextLocal = 1
    /\ Len(blocks) = 2
    /\ blocks[1][1].id = 1
    /\ blocks[2][1].id = 2
    /\ indexInHistory = << 1, 2 >>
    /\ indexInBlock = << << 1 >>, << 1 >> >>

\* ------------------------------------------------------------------- C32
\* A private chat where message 2 is outbound: messages and local service
\* messages arrive in any order, read receipts move the cursor and clear the
\* anchor, and the remote store reports dialog entries and unread counts.
NextFirstUnread ==
    \/ AddNewMessageLast
    \/ AddNewService
    \/ InboxRead
    \/ ApplyDialogFields
    \/ SetUnreadCount

SpecFirstUnread == InitUnread /\ [][NextFirstUnread]_vars

\* The step is a setUnreadCount that runs calculateFirstUnreadMessage with the
\* anchor unset and the cursor known.
LazyRecomputation ==
    /\ lastOp'.op = "setUnreadCount"
    /\ failed' = ""
    /\ lastOp'.arg >= 2
    /\ unreadCount # << lastOp'.arg >>
    /\ firstUnreadView = NoItem
    /\ unreadBarView = NoItem
    /\ loadedAtBottom
    /\ Known(inboxReadBefore)

\* The positions of the views with server ids, and among them those the scan
\* looks at: the inbound ones and the newest.
ServerPositions == { k \in 1..Len(Flatten(blocks)) : IsServerMsgId(Flatten(blocks)[k].id) }

ScannedPositions ==
    { k \in ServerPositions :
        \/ ~Flatten(blocks)[k].out
        \/ \A j \in ServerPositions : j <= k }

\* The oldest of the views at positions P that lies after every view of P
\* with an id below the cursor; none when the newest view of P is below it.
OldestNotBelow(P) ==
    IF \E k \in P :
           \A j \in P : j >= k => Flatten(blocks)[j].id >= inboxReadBefore[1]
    THEN Flatten(blocks)[CHOOSE k \in P :
             /\ \A j \in P : j >= k => Flatten(blocks)[j].id >= inboxReadBefore[1]
             /\ \A i \in P : i < k =>
                    \E j \in P : j >= i /\ Flatten(blocks)[j].id < inboxReadBefore[1]]
    ELSE NoItem

\* C32 as stated: with the anchor unset and the cursor known, the lazy
\* recomputation scans the items backward from the newest and sets the anchor
\* to the oldest item with id >= cursor, stopping at the first item with id
\* below the cursor; the anchor stays none when the newest server-confirmed
\* item is below the cursor.
C32_AnchorIsOldestNotBelowCursor ==
    [][LazyRecomputation => firstUnreadView' = OldestNotBelow(ServerPositions)]_vars

\* C32, amended: the scan passes over the items with client-side ids and, once
\* it has a candidate, over the outbound items; of the items it looks at (the
\* newest server-confirmed item and the inbound server-confirmed items) the
\* anchor becomes the oldest with id >= cursor that comes after every looked-at
\* item with id below the cursor, and stays none when the newest
\* server-confirmed item is below the cursor.
C32_AnchorIsOldestScannedNotBelowCursor ==
    [][LazyRecomputation => firstUnreadView' = OldestNotBelow(ScannedPositions)]_vars

\* The remote store reported two unread messages for a window that holds the
\* outbound message 2 and then the inbound message 1, with the cursor at 1:
\* the anchor is message 1, the newer view, not the outbound message 2.
C32_Witness ==
    /\ lastOp = [op |-> "setUnreadCount", arg |-> 2]
    /\ failed = ""
    /\ unreadCount = << 2 >>
    /\ inboxReadBefore = << 1 >>
    /\ Len(Flatten(blocks)) = 2
    /\ Flatten(blocks)[1].id = 2
    /\ Flatten(blocks)[1].out
    /\ Flatten(blocks)[2].id = 1
    /\ firstUnreadView = Flatten(blocks)[2]

\* ------------------------------------------------------------------- C34
\* A migrated legacy group or the supergroup it became: messages arrive, the
\* window leaves the bottom, items are removed in the window and in its
\* legacy sibling.
NextRemoved ==
    \/ AddNewMessageLast
    \/ SetNotLoadedAtBottom
    \/ DestroyItem
    \/ SiblingSetChatListMessage
    \/ SiblingItemRemoved

SpecRemoved == InitChatList /\ [][NextRemoved]_vars

\* C34: after itemRemoved neither lastMessage nor chatListMessage of the
\* window refers to the removed item, and the chatListMessage of the
\* supergroup window does not refer to an item removed in the legacy window
\* it came from; a lastMessage that was the removed item becomes the newest
\* remaining item when the window is loaded at bottom and not empty, and
\* unknown otherwise.
C34_RemovedItemNotReferenced ==
    /\ [][lastOp'.op = "destroy" /\ failed' = "" =>
            \A item \in items \ items' :
                /\ lastMessage' # << item >>
                /\ chatListMessage' # << item >>
                /\ lastMessage = << item >> =>
                     lastMessage' =
                         IF loadedAtBottom' /\ Flatten(blocks') # << >>
                         THEN << Flatten(blocks')[Len(Flatten(blocks'))] >>
                         ELSE << >>]_vars
    /\ [][lastOp'.op = "siblingItemRemoved" /\ failed' = "" =>
            chatListMessage' # << SiblingItem >>]_vars

\* The last message of a window that is not loaded at bottom was removed
\* while other views remain: lastMessage is unknown.
C34_Witness ==
    /\ lastOp.op = "destroy"
    /\ failed = ""
    /\ ~loadedAtBottom
    /\ Flatten(blocks) # << >>
    /\ lastMessage = << >>
    /\ \E i \in ItemIds : created[i] > 0 /\ \A item \in items : item.id # i

\* ------------------------------------------------------------------- C35
\* A private chat: unread messages are pushed, also more than once, the
\* window leaves the bottom, read receipts arrive and items are removed.
NextNotify ==
    \/ AddNewMessageUnread
    \/ SetNotLoadedAtBottom
    \/ InboxRead
    \/ DestroyItem

SpecNotify == InitUnread /\ [][NextNotify]_vars

\* C35: after an item is removed the notification queue holds no reference to
\* it, whatever was ingested before, the same unread message pushed more than
\* once while the window is not loaded at bottom included.
C35_RemovedItemNotQueued ==
    [][lastOp'.op = "destroy" /\ failed' = "" =>
          \A item \in items \ items' :
              \A i \in 1..Len(notifies') : notifies'[i] # item]_vars

\* ------------------------------------------------------------------- C36
\* A private chat that enters and leaves the main chat list while unread
\* counts are set and changed, the unread mark is set and cleared, and
\* messages arrive.
NextBadge ==
    \/ ChangedInChatList
    \/ SetUnreadCount
    \/ ChangeUnreadCount
    \/ SetUnreadMark
    \/ AddNewMessageLast

SpecBadge == InitUnread /\ [][NextBadge]_vars

\* C36: while the window is in the main chat list, the sum of the deltas it
\* reported to the session-wide unread counter equals historiesUnreadCount(),
\* and the sum of the entry deltas it reported is 1 exactly when unreadCount
\* is positive or unreadMark is set.
C36_ReportedSumsMatch ==
    inChatList =>
        /\ unreadFull = historiesUnreadCount(State)
        /\ unreadEntriesFull \in {0, 1}
        /\ unreadEntriesFull = 1 <=> (unreadCountOf(State) > 0 \/ unreadMark)

\* In the chat list, the count went from positive to zero with the mark set:
\* the window still counts as one unread conversation with one unread message.
C36_Witness ==
    /\ inChatList
    /\ lastOp.op \in {"setUnreadCount", "changeUnreadCount"}
    /\ unreadCount = << 0 >>
    /\ unreadMark
    /\ unreadFull = 1
    /\ unreadEntriesFull = 1

\* ------------------------------------------------------------------- C37
\* A private chat where message 2 is outbound or inbound: messages arrive in
\* any order, the remote store reports unread counts, and read receipts come.
InitInboxRead == InitUser /\ peer.groupedId = 0 /\ peer.outIds \in {{}, {2}}

NextInboxRead ==
    \/ AddNewMessageLast
    \/ SetNotLoadedAtBottom
    \/ SetUnreadCount
    \/ InboxRead

SpecInboxRead == InitInboxRead /\ [][NextInboxRead]_vars

\* The inbound unread views with id above upTo, as (block, index) pairs.
UnreadAbove(upTo) ==
    { p \in UNION { { << b, i >> : i \in 1..Len(blocks[b]) } : b \in 1..Len(blocks) } :
        /\ ~blocks[p[1]][p[2]].out
        /\ unread(State, blocks[p[1]][p[2]])
        /\ blocks[p[1]][p[2]].id > upTo }

\* Those of them that no view with an id in 1..upTo follows in their block.
UnreadAboveCounted(upTo) ==
    { p \in UnreadAbove(upTo) :
        \A j \in (p[2] + 1)..Len(blocks[p[1]]) :
            ~(blocks[p[1]][j].id > 0 /\ blocks[p[1]][j].id <= upTo) }

\* The cursor that setUnreadCount asks for when the count changes to 0 or 1.
CursorOfCount(count) ==
    IF unreadCount = << count >> \/ msgIdForRead(State) = 0 \/ count > 1 THEN 0
    ELSE IF count = 1 THEN msgIdForRead(State)
    ELSE msgIdForRead(State) + 1

OldCursor == IF Known(inboxReadBefore) THEN inboxReadBefore[1] ELSE 0

InboxReadStep == lastOp'.op = "inboxRead" /\ failed' = ""

\* C37 as stated: inboxRead(upTo) with a known non-zero unreadCount sets it
\* to the number of loaded inbound unread items with id > upTo, raises the
\* inbound cursor to max(old cursor, upTo + 1) and clears the first-unread
\* anchor; with a zero or unknown unreadCount the count is left unchanged.
C37_CountsAndRaisesToUpTo ==
    [][InboxReadStep =>
         /\ firstUnreadView' = NoItem
         /\ inboxReadBefore' = << Max(OldCursor, lastOp'.arg + 1) >>
         /\ unreadCount' = IF unreadCountOf(State) # 0
                           THEN << Cardinality(UnreadAbove(lastOp'.arg)) >>
                           ELSE unreadCount]_vars

\* C37, amended: the count becomes the number of loaded inbound unread items
\* with id > upTo that no item with an id in 1..upTo follows in their block;
\* the cursor becomes the largest of the old cursor, upTo + 1 and, when the
\* count changed to 0 or 1 and the id to read up to is known, that id + 1
\* (for 0) or that id (for 1); the anchor is cleared; a zero or unknown
\* count is left unchanged.
C37_CountsAndRaisesCursor ==
    [][InboxReadStep =>
         /\ firstUnreadView' = NoItem
         /\ unreadCount' = IF unreadCountOf(State) # 0
                           THEN << Cardinality(UnreadAboveCounted(lastOp'.arg)) >>
                           ELSE unreadCount
         /\ inboxReadBefore' =
              << Max(Max(OldCursor, lastOp'.arg + 1),
                     IF unreadCountOf(State) # 0
                     THEN CursorOfCount(Cardinality(UnreadAboveCounted(lastOp'.arg)))
                     ELSE 0) >>]_vars

\* A receipt for message 1 came while two messages counted as unread and the
\* inbound message 2 was loaded: one unread message is left, the anchor is
\* cleared and the cursor is at 2.
C37_Witness ==
    /\ lastOp = [op |-> "inboxRead", arg |-> 1]
    /\ failed = ""
    /\ unreadCount = << 1 >>
    /\ inboxReadBefore = << 2 >>
    /\ firstUnreadView = NoItem
    /\ \E b \in 1..Len(blocks) : \E i \in 1..Len(blocks[b]) :
           blocks[b][i].id = 2 /\ ~blocks[b][i].out

\* ------------------------------------------------------------------- C38
\* A private chat: single messages arrive, the window leaves the bottom, and
\* older and newer pages of every content are spliced in, pages that repeat
\* an id and pages with ids the window has loaded included.
NextSlices ==
    \/ AddNewMessageLast
    \/ SetNotLoadedAtBottom
    \/ AddOlderSlice
    \/ AddNewerSlice

SpecSlices == InitPlainUser /\ [][NextSlices]_vars

\* C38: the precondition of addItemToBlock, that the item has no view in the
\* window, holds on every call made by addOlderSlice and addNewerSlice,
\* whatever the page holds.
C38_SlicesMeetAddItemToBlockPrecondition ==
    [][lastOp'.op \in {"addOlderSlice", "addNewerSlice"} =>
          failed' # "addItemToBlock"]_vars

\* ------------------------------------------------------------------- C39
\* addNewerSlice, or addOlderSlice with a page that is not empty, returned.
SpliceReturned ==
    /\ failed' = ""
    /\ \/ lastOp'.op = "addNewerSlice"
       \/ lastOp'.op = "addOlderSlice" /\ lastOp'.arg > 0

\* C39: when addNewerSlice or a non-empty addOlderSlice returns, a known
\* lastMessage that has a view in the window implies loadedAtBottom, and
\* loadedAtBottom implies that lastMessage is known.
C39_LastMessageAndBottomAgree ==
    [][SpliceReturned =>
         /\ (/\ Known(lastMessage')
             /\ \E b \in 1..Len(blocks') : \E i \in 1..Len(blocks'[b]) :
                    blocks'[b][i] = lastMessage'[1])
            => loadedAtBottom'
         /\ loadedAtBottom' => Known(lastMessage')]_vars

\* An older page brought the view of the last message into a window that had
\* only older views: the window is loaded at bottom, though its top is not.
C39_Witness ==
    /\ lastOp.op = "addOlderSlice"
    /\ lastOp.arg > 0
    /\ failed = ""
    /\ loadedAtBottom
    /\ ~loadedAtTop
    /\ Known(lastMessage)
    /\ Len(blocks) = 2
    /\ blocks[1][Len(blocks[1])] = lastMessage[1]

\* ------------------------------------------------------------------- C40
\* A group: a local draft may be saved first; then messages with and
\* without reply keyboards arrive, unread ones are queued for notification,
\* the unread mark is set, read receipts come, and the window unloads its
\* blocks.
InitUnload == InitKeyboard /\ peer.kind = "chat" /\ peer.mentionIds = {}

SaveFirstLocalDraft ==
    /\ lastOp.op = "init"
    /\ CommitDrafts(setLocalDraft(Drafts, << [text |-> "a", msgId |-> 0, cursor |-> 1,
                                              previewCancelled |-> FALSE, date |-> 1] >>),
                    "setLocalDraft", 1)

NextUnload ==
    \/ SaveFirstLocalDraft
    \/ AddNewMessageMarkup
    \/ AddNewMessageUnread
    \/ SetUnreadMark
    \/ InboxRead
    \/ UnloadBlocks

SpecUnload == InitUnload /\ [][NextUnload]_vars

UnloadStep == lastOp'.op = "unloadBlocks" /\ failed' = ""

\* What unloadBlocks leaves alone of the window: everything but the blocks
\* with their cached indices, the three anchors, the joined-message marker,
\* the two load-edge flags and the keyboard-initialised flag.
UnloadKeeps ==
    /\ unreadCount' = unreadCount
    /\ unreadMark' = unreadMark
    /\ lastMessage' = lastMessage
    /\ chatListMessage' = chatListMessage
    /\ inboxReadBefore' = inboxReadBefore
    /\ outboxReadBefore' = outboxReadBefore
    /\ notifies' = notifies
    /\ UNCHANGED << localDraft, cloudDraft, localDraftObject, lastSentDraftText,
                    lastSentDraftTime >>
    /\ UNCHANGED << migrateTo, items, created, nextLocal, chatListTimeId,
                    unreadMentions, unreadMentionsCount, buildingFrontBlock,
                    typing, sendActions, sendActionString, joinedMessageFound,
                    requests, fromChatList, lastKeyboardUsed, lastKeyboardId,
                    lastKeyboardFrom, inChatList, unreadFull, unreadEntriesFull >>

\* C40 as stated: unloadBlocks changes only the block sequence, the three
\* anchors, the joined-message marker, the load-edge flags and the
\* keyboard-initialised flag; the unread count and mark, lastMessage,
\* chatListMessage, both read cursors, the drafts and the notification queue
\* stay as they are.
C40_UnloadChangesOnlyBlocksAnchorsFlags ==
    [][UnloadStep => UnloadKeeps /\ markupSenders' = markupSenders]_vars

\* C40, amended: besides those, unloadBlocks empties the set of reply-markup
\* senders of the group or supergroup; everything else stays as it is.
C40_UnloadKeepsCountsMessagesCursorsQueue ==
    [][UnloadStep => UnloadKeeps /\ markupSenders' = {}]_vars

\* A window with an unread count, a known last message, a local draft and a
\* queued notification has unloaded its blocks, and has dropped its anchor.
C40_Witness ==
    /\ lastOp.op = "unloadBlocks"
    /\ failed = ""
    /\ blocks = << >>
    /\ ~loadedAtBottom
    /\ ~lastKeyboardInited
    /\ notifies # << >>
    /\ Known(lastMessage)
    /\ lastMessage[1] # NoItem
    /\ Known(inboxReadBefore)
    /\ localDraft # << >>
    /\ unreadMark
    /\ unreadCountOf(State) > 0
====
